---- MODULE Spec2Model ----
(***************************************************************************)
(* Model of the chunked transfer engine of s3-client:                      *)
(*   - internal/cmd/download/run.go : downloader.download (parallel range  *)
(*     download into a pre-sized file, N workers draining a closed queue)  *)
(*   - internal/cmd/upload/run.go and internal/shared/s3ops/upload.go :    *)
(*     the sequential multipart upload loops                               *)
(*   - internal/cmd/download/run.go : progressBar.render and the goroutine *)
(*     that calls it on every tick and once more when download() stops it  *)
(*   - internal/shared/s3client/client.go : Factory.GetClient, ClearCache  *)
(*     and GetClientWithOptions                                            *)
(*   - internal/cmd/upload/run.go : the choice between a single PutObject  *)
(*     and a multipart upload; s3ops.MultipartUploader's bookkeeping       *)
(*   - the connect browser (bubbletea model): Update on key and data       *)
(*     messages, followed by View                                          *)
(***************************************************************************)
EXTENDS Integers, Sequences, FiniteSets, TLC

\* ---------------------------------------------------------------- bounds
MaxSize == 4
MaxChunkSize == 3
MaxConc == 2
MaxPlanSize == 12
MaxPlanChunk == 5
MaxSource == 5
MaxPartSize == 3
MaxTag == 2
MaxElapsed == 3
MinSampledChunk == 2
MaxCallers == 2
MaxKeys == 2
MaxCalls == 2
MaxClears == 1
MaxOpts == 2
MaxPartMB == 1
MaxOps == 3
MaxList == 6
MaxLoads == 1
MaxDepth == 1
MaxDownloads == 2

\* ------------------------------------------------------ program constants
stateWaiting == 0
stateDownloading == 1
stateDone == 2
stateFailed == 3

VARIABLES
    \* ---- download (downloader.download)
    object,       \* the remote object's bytes (what the service holds)
    chunkSize,    \* d.chunkSize
    concurrency,  \* d.concurrency
    mpc,          \* position of download() itself
    totalSize,    \* totalSize := meta.Size
    fileExists,   \* whether d.outputPath exists
    file,         \* content of d.outputPath
    chunks,       \* var chunks []chunk
    chunkStates,  \* pb.chunkStates
    downloaded,   \* var downloaded int64
    chunkCh,      \* chunkCh, buffered and closed: the chunks not yet received
    errCh,        \* errCh, buffered with capacity d.concurrency
    spawned,      \* number of worker goroutines started so far
    wpc,          \* position of each worker goroutine
    wchunk,       \* each worker's c
    wdata,        \* each worker's data
    werr,         \* each worker's pending error
    gets,         \* per chunk index, the ranges DownloadRange was called with
    result,       \* what download() returned
    stop,         \* stopProgress has been closed
    early,        \* workers that returned while chunkCh still held chunks
    \* ---- progress sampler (progressBar, the goroutine of run.go 315-327)
    spc,          \* position of the sampler goroutine ("off": no sampler runs)
    sinceLast,    \* time.Now() - p.lastTime, in clock units
    lastBytes,    \* p.lastBytes
    speed,        \* p.speedMBs, as bytes per clock unit
    rendered,     \* p.rendered
    snap,         \* the frame render printed last (what the terminal shows)
    \* ---- client cache (s3client.Factory)
    clients,      \* f.clients: the client stored under each key, or NoClient
    rwReaders,    \* callers holding f.mu for reading
    rwWriter,     \* the goroutine holding f.mu for writing, or NoOne
    cpc,          \* position of each GetClient caller
    ckey,         \* each caller's key
    cepoch,       \* number of ClearCache calls completed when the call began
    cleft,        \* GetClient calls that may still be started
    kpc,          \* position of the goroutine calling ClearCache
    epoch,        \* number of ClearCache calls completed
    built,        \* every client constructed: its key, epoch and identity
    rets,         \* what each caller's last GetClient call returned
    copts,        \* the clientOpts of each caller's call in progress (0: none)
    applied,      \* the client options each constructed client was built with
    \* --- upload.Run and s3ops.MultipartUploader
    multipart,    \* the -multipart flag
    partSizeMB,   \* the -part-size flag
    uploadedBytes, \* MultipartUploader.uploadedBytes
    \* --- the interactive browser (package connect)
    bpc,          \* the program: "idle", "running", "panicked" or "quit"
    activePane,   \* paneBuckets or paneObjects
    overlay,      \* overlayNone or overlayPalette
    buckets,      \* m.buckets
    objects,      \* m.objects: the IsDir flag of every entry
    cursorBucket,
    cursorObject,
    offsetBucket,
    offsetObject,
    bucket,       \* m.bucket: 0 for "", 1 for the name of a bucket
    history,      \* len(m.history)
    modelErr,     \* m.err != nil
    height,       \* m.height
    downloading,
    loadsBuckets, \* loadBuckets commands that have not delivered their message
    loadsObjects, \* loadObjects commands that have not delivered their message
    running,      \* downloads started whose dlDoneMsg Update has not handled yet
    \* ---- multipart upload (uploadMultipart, s3ops.UploadMultipart,
    \*      s3ops.UploadMultipartWithReader)
    uVariant,        \* which of the three upload loops runs
    source,          \* the local file's (reader's) bytes
    partSize,        \* the partSize argument
    upc,             \* position of the upload function
    offset,          \* offset
    partNumber,      \* partNumber
    buf,             \* buf
    filePos,         \* read position of the *os.File (moved by file.Read)
    completedParts,  \* completedParts
    calls,           \* the storage calls issued so far, with their outcome
    uerr,            \* the error the function is about to return
    uresult          \* what the upload function returned

dlVars == <<object, chunkSize, concurrency, mpc, totalSize, fileExists, file,
            chunks, chunkStates, downloaded, chunkCh, errCh, spawned, wpc,
            wchunk, wdata, werr, gets, result, stop, early>>

smVars == <<spc, sinceLast, lastBytes, speed, rendered, snap>>

fcVars == <<clients, rwReaders, rwWriter, cpc, ckey, cepoch, cleft, kpc, epoch,
            built, rets, copts, applied>>

runVars == <<multipart, partSizeMB, uploadedBytes>>

upVars == <<uVariant, source, partSize, upc, offset, partNumber, buf, filePos,
            completedParts, calls, uerr, uresult, runVars>>

brVars == <<bpc, activePane, overlay, buckets, objects, cursorBucket,
            cursorObject, offsetBucket, offsetObject, bucket, history,
            modelErr, height, downloading, loadsBuckets, loadsObjects,
            running>>

vars == <<dlVars, upVars, smVars, fcVars, brVars>>

\* --------------------------------------------------------------- helpers
Zeros(n) == [k \in 1..n |-> 0]

\* Goroutine identities; one more than MaxConc so that a spawn loop running one
\* iteration too many still names a goroutine.
Workers == 1..(MaxConc + 1)

Running == [kind |-> "running", chunk |-> -1]
Nil == [kind |-> "nil", chunk |-> -1]
Err(kind, idx) == [kind |-> kind, chunk |-> idx]

NoChunk == [index |-> -1, start |-> 0, end |-> -1]

\* The chunk list built by the loop of download():
\*   for i := 0; i < totalSize; i += chunkSize { end := i+chunkSize-1; clamp; append }
RECURSIVE PlanLoop(_, _, _, _)
PlanLoop(i, total, cs, acc) ==
    IF i < total
    THEN LET e0 == i + cs - 1
             e  == IF e0 >= total THEN total - 1 ELSE e0
         IN  PlanLoop(i + cs, total, cs,
                      Append(acc, [index |-> Len(acc), start |-> i, end |-> e]))
    ELSE acc

\* Mutant: the planning loop without the clamp of the last chunk's end.
RECURSIVE PlanLoopNoClamp(_, _, _, _)
PlanLoopNoClamp(i, total, cs, acc) ==
    IF i < total
    THEN PlanLoopNoClamp(i + cs, total, cs,
             Append(acc, [index |-> Len(acc), start |-> i, end |-> i + cs - 1]))
    ELSE acc

PlanChunksNoClamp(total, cs) == PlanLoopNoClamp(0, total, cs, <<>>)

PlanChunks(total, cs) == PlanLoop(0, total, cs, <<>>)

\* Mutant: the range's end taken as exclusive.
DownloadRangeExclusiveEnd(obj, start, end) == SubSeq(obj, start + 1, end)

\* Mutant: the Range header left out, so that every GET answers the whole object.
DownloadRangeWholeObject(obj, start, end) == obj

\* s3ops.DownloadRange on success: GET with Range "bytes=start-end" answers the
\* bytes start..end (inclusive) of the object.
DownloadRange(obj, start, end) == SubSeq(obj, start + 1, end + 1)

\* Variant: the pre-sizing call leaves the file as it is.
TruncateSkipped(f, size) == f

\* f.Truncate(size) on the freshly truncated (empty) file: zero-filled to size.
Truncate(f, size) ==
    [k \in 1..size |-> IF k <= Len(f) THEN f[k] ELSE 0]

\* Mutant: the output is removed when download() returns.
CloseAndRemove(f) == <<>>

\* defer f.Close(): run when download() returns after the file was opened; the
\* bytes written so far stay in the file.
Close(f) == f

\* Mutant: f.Write in place of f.WriteAt, appending at the end of the file.
WriteAppend(f, data, off) == f \o data

\* Mutant: every write lands at the start of the file.
WriteAtFromZero(f, data, off) ==
    [k \in 1..(IF Len(data) > Len(f) THEN Len(data) ELSE Len(f)) |->
        IF k <= Len(data) THEN data[k] ELSE f[k]]

\* f.WriteAt(data, off): positional write, extending the file when needed.
WriteAt(f, data, off) ==
    LET n == IF off + Len(data) > Len(f) THEN off + Len(data) ELSE Len(f)
    IN  [k \in 1..n |->
            IF k > off /\ k <= off + Len(data) THEN data[k - off]
            ELSE IF k <= Len(f) THEN f[k] ELSE 0]

\* Mutant: a failed chunk is left in the Active state.
setStateNeverFailed(states, idx, st) ==
    IF st = 3 THEN states ELSE [states EXCEPT ![idx + 1] = st]

\* pb.setState(idx, state): chunkStates is a sequence indexed from 1.
setState(states, idx, st) == [states EXCEPT ![idx + 1] = st]

\* Mutant: the spawn loop running with i <= d.concurrency.
NumWorkersOneMore(conc) == conc + 1

\* Number of worker goroutines the spawn loop starts.
NumWorkers(conc) == conc

\* Mutant: the recorded errors are never looked at.
FirstErrorDropped(ch) == Nil

\* Mutant: the last recorded error is returned.
LastError(ch) == IF Len(ch) > 0 THEN ch[Len(ch)] ELSE Nil

\* The error download() returns from the closed errCh: the first one in it.
FirstError(ch) == IF Len(ch) > 0 THEN Head(ch) ELSE Nil

\* Mutant: every request starts at the first byte of the object.
RangeDownloadFromZero(c) == [start |-> 0, end |-> c.end]

\* s3ops.RangeDownload{Start: c.start, End: c.end}: the range a worker asks for.
RangeDownload(c) == [start |-> c.start, end |-> c.end]

\* The call DownloadRange(ctx, client, bucket, key, RangeDownload{...}) noted
\* under the index of the chunk it is made for.
RecordGet(g, c) == [g EXCEPT ![c.index + 1] = Append(@, RangeDownload(c))]

\* Mutant: the workers also stop once any worker has reported an error.
RangeEndsOnError(ch) == Len(ch) = 0 \/ Len(errCh) > 0

\* `for c := range chunkCh` ends when the closed channel holds nothing more.
RangeEnds(ch) == Len(ch) = 0

\* Mutant: a receive that leaves the chunk at the head of the channel.
DequeuePeek(ch) == ch

\* What a receive from chunkCh leaves in the channel.
Dequeue(ch) == Tail(ch)

CountState(st) == Cardinality({k \in 1..Len(chunkStates) : chunkStates[k] = st})

\* ------------------------------------------------------------------ Init
\* The download never inspects the bytes it moves, so the object's content is
\* taken position-tagged: byte k of the object has the value k, which no other
\* position and no zero fill of Truncate shares.
Content(n) == [k \in 1..n |-> k]

AllObjects == {Content(n) : n \in 0..MaxSize}

\* What d.outputPath holds when it exists before the run: stale bytes, none of
\* them a byte of the object or a zero, and more of them than any object has.
OldFile == [k \in 1..(MaxSize + 1) |-> 0 - k]

\* No upload in progress.
\* ---- values of the browser
paneBuckets == 0
paneObjects == 1
overlayNone == 0
overlayPalette == 1

\* initialModel(client) before the program runs: no browser.
BrowserFields ==
    /\ activePane = paneBuckets
    /\ overlay = overlayNone
    /\ buckets = <<>>
    /\ objects = <<>>
    /\ cursorBucket = 0
    /\ cursorObject = 0
    /\ offsetBucket = 0
    /\ offsetObject = 0
    /\ bucket = 0
    /\ history = 0
    /\ modelErr = FALSE
    /\ height = 0
    /\ downloading = FALSE
    /\ running = 0

BrowserIdle ==
    /\ bpc = "idle"
    /\ loadsBuckets = 0
    /\ loadsObjects = 0
    /\ BrowserFields

\* No upload.Run and no MultipartUploader.
RunIdle ==
    /\ multipart = FALSE
    /\ partSizeMB = 0
    /\ uploadedBytes = 0

UploadIdle ==
    /\ RunIdle
    /\ uVariant = "cmd"
    /\ source = <<>>
    /\ partSize = 1
    /\ upc = "idle"
    /\ offset = 0
    /\ partNumber = 1
    /\ buf = <<>>
    /\ filePos = 0
    /\ completedParts = <<>>
    /\ calls = <<>>
    /\ uerr = Nil
    /\ uresult = Running

\* ---- values of the sampler
\* A float64 that is a ratio of two integers, n/d with d > 0, or (kind "nan")
\* the NaN that 0.0/0.0 yields, or (kind "none") no value at all.
Rat(n, d) == [kind |-> "rat", n |-> n, d |-> d]
NaN == [kind |-> "nan", n |-> 0, d |-> 1]
Unknown == [kind |-> "none", n |-> 0, d |-> 1]

NoSnap == [kind |-> "none", bytes |-> 0, total |-> 0, speed |-> Unknown,
           pct |-> Unknown, eta |-> Unknown, filled |-> 0,
           waiting |-> 0, downloading |-> 0, done |-> 0, failed |-> 0]

\* newProgressBar: lastBytes 0, lastTime = time.Now(), speedMBs 0, rendered
\* false; nothing printed yet.  spc = "off": no sampler goroutine runs.
SamplerOff ==
    /\ spc = "off"
    /\ sinceLast = 0
    /\ lastBytes = 0
    /\ speed = Rat(0, 1)
    /\ rendered = FALSE
    /\ snap = NoSnap

\* ---- values of the client cache
Callers == 1..MaxCallers
Keys == 1..MaxKeys

\* key := f.cacheKey(opts) + "|custom": a key of its own for every tuple,
\* whatever the client options.
CustomKey(k) == k + MaxKeys

AllKeys == 1..(2 * MaxKeys)

\* The client options a call can pass, such as WithPathStyle(true) and
\* WithPathStyle(false); 0 stands for a call without client options.
ClientOpts == 1..MaxOpts
NoOpts == 0
NoClient == 0
NoOne == 0
Clearer == MaxCallers + 1

\* A caller that has not been handed anything yet.
NoReturn ==
    [key |-> 0, client |-> NoClient, err |-> FALSE, from |-> 0, to |-> 0,
     opts |-> NoOpts]

\* NewFactory(): an empty map, the lock free; no call in progress.
FactoryIdle ==
    /\ clients = [k \in AllKeys |-> NoClient]
    /\ rwReaders = {}
    /\ rwWriter = NoOne
    /\ cpc = [c \in Callers |-> "idle"]
    /\ ckey = [c \in Callers |-> 1]
    /\ cepoch = [c \in Callers |-> 0]
    /\ cleft = 0
    /\ kpc = "idle"
    /\ epoch = 0
    /\ built = {}
    /\ rets = [c \in Callers |-> NoReturn]
    /\ copts = [c \in Callers |-> NoOpts]
    /\ applied = {}

InitWorkers ==
    /\ spawned = 0
    /\ wpc = [w \in Workers |-> "idle"]
    /\ wchunk = [w \in Workers |-> NoChunk]
    /\ wdata = [w \in Workers |-> <<>>]
    /\ werr = [w \in Workers |-> Nil]

\* A download() call about to start, with the sampler's fields left to the
\* specification.
InitDownload ==
    /\ object \in AllObjects
    /\ chunkSize \in 1..MaxChunkSize
    /\ concurrency \in 0..MaxConc
    /\ mpc = "head"
    /\ totalSize = 0
    /\ fileExists \in BOOLEAN
    /\ file = IF fileExists THEN OldFile ELSE <<>>
    /\ chunks = <<>>
    /\ chunkStates = <<>>
    /\ downloaded = 0
    /\ chunkCh = <<>>
    /\ errCh = <<>>
    /\ gets = <<>>
    /\ stop = FALSE
    /\ early = {}
    /\ InitWorkers
    /\ result = Running
    /\ UploadIdle
    /\ FactoryIdle
    /\ BrowserIdle

\* download() seen without its progress goroutine.
Init ==
    /\ InitDownload
    /\ SamplerOff

\* --------------------------------------------------------------- download()
\* meta, err := s3ops.HeadObject(...)
HeadObjectOk ==
    /\ mpc = "head"
    /\ totalSize' = Len(object)
    /\ mpc' = "open"
    /\ UNCHANGED <<upVars, smVars, fcVars, brVars>>
    /\ UNCHANGED <<stop, early>>
    /\ UNCHANGED gets
    /\ UNCHANGED <<object, chunkSize, concurrency, fileExists, file, chunks,
                   chunkStates, downloaded, chunkCh, errCh, spawned, wpc,
                   wchunk, wdata, werr, result>>

\* Variant: a failed size lookup falls through to opening the file.
AfterHeadFailureContinue == "open"

\* `return fmt.Errorf("failed to get object: %w", err)`: where download() is
\* after HeadObject fails.
AfterHeadFailure == "returned"

HeadObjectFail ==
    /\ mpc = "head"
    /\ result' = Err("HeadObject", -1)
    /\ mpc' = AfterHeadFailure
    /\ UNCHANGED <<upVars, smVars, fcVars, brVars>>
    /\ UNCHANGED <<stop, early>>
    /\ UNCHANGED gets
    /\ UNCHANGED <<object, chunkSize, concurrency, totalSize, fileExists, file,
                   chunks, chunkStates, downloaded, chunkCh, errCh, spawned,
                   wpc, wchunk, wdata, werr>>

\* os.OpenFile(d.outputPath, O_CREATE|O_RDWR|O_TRUNC, 0644)
OpenFileOk ==
    /\ mpc = "open"
    /\ fileExists' = TRUE
    /\ file' = <<>>
    /\ mpc' = "truncate"
    /\ UNCHANGED <<upVars, smVars, fcVars, brVars>>
    /\ UNCHANGED <<stop, early>>
    /\ UNCHANGED gets
    /\ UNCHANGED <<object, chunkSize, concurrency, totalSize, chunks,
                   chunkStates, downloaded, chunkCh, errCh, spawned, wpc,
                   wchunk, wdata, werr, result>>

OpenFileFail ==
    /\ mpc = "open"
    /\ result' = Err("OpenFile", -1)
    /\ mpc' = "returned"
    /\ UNCHANGED <<upVars, smVars, fcVars, brVars>>
    /\ UNCHANGED <<stop, early>>
    /\ UNCHANGED gets
    /\ UNCHANGED <<object, chunkSize, concurrency, totalSize, fileExists, file,
                   chunks, chunkStates, downloaded, chunkCh, errCh, spawned,
                   wpc, wchunk, wdata, werr>>

\* f.Truncate(totalSize)
TruncateOk ==
    /\ mpc = "truncate"
    /\ file' = Truncate(file, totalSize)
    /\ mpc' = "plan"
    /\ UNCHANGED <<upVars, smVars, fcVars, brVars>>
    /\ UNCHANGED <<stop, early>>
    /\ UNCHANGED gets
    /\ UNCHANGED <<object, chunkSize, concurrency, totalSize, fileExists,
                   chunks, chunkStates, downloaded, chunkCh, errCh, spawned,
                   wpc, wchunk, wdata, werr, result>>

TruncateFail ==
    /\ mpc = "truncate"
    /\ result' = Err("Truncate", -1)
    /\ file' = Close(file)
    /\ mpc' = "returned"
    /\ UNCHANGED <<upVars, smVars, fcVars, brVars>>
    /\ UNCHANGED <<stop, early>>
    /\ UNCHANGED gets
    /\ UNCHANGED <<object, chunkSize, concurrency, totalSize, fileExists,
                   chunks, chunkStates, downloaded, chunkCh, errCh, spawned,
                   wpc, wchunk, wdata, werr>>

\* The planning loop, newProgressBar, and the fill-and-close of chunkCh.
Plan ==
    /\ mpc = "plan"
    /\ chunks' = PlanChunks(totalSize, chunkSize)
    /\ chunkStates' = [k \in 1..Len(chunks') |-> stateWaiting]
    /\ downloaded' = 0
    /\ chunkCh' = chunks'
    /\ errCh' = <<>>
    /\ gets' = [k \in 1..Len(chunks') |-> <<>>]
    /\ mpc' = "spawn"
    /\ UNCHANGED <<upVars, smVars, fcVars, brVars>>
    /\ UNCHANGED <<stop, early>>
    /\ UNCHANGED <<object, chunkSize, concurrency, totalSize, fileExists, file,
                   spawned, wpc, wchunk, wdata, werr, result>>

\* One iteration of: for i := 0; i < d.concurrency; i++ { wg.Add(1); go func... }
Spawn ==
    /\ mpc = "spawn"
    /\ spawned < NumWorkers(concurrency)
    /\ spawned' = spawned + 1
    /\ wpc' = [wpc EXCEPT ![spawned + 1] = "recv"]
    /\ UNCHANGED <<upVars, smVars, fcVars, brVars>>
    /\ UNCHANGED <<stop, early>>
    /\ UNCHANGED gets
    /\ UNCHANGED <<object, chunkSize, concurrency, mpc, totalSize, fileExists,
                   file, chunks, chunkStates, downloaded, chunkCh, errCh,
                   wchunk, wdata, werr, result>>

\* The spawn loop ends; download() blocks in wg.Wait().
SpawnDone ==
    /\ mpc = "spawn"
    /\ ~(spawned < NumWorkers(concurrency))
    /\ mpc' = "wait"
    /\ UNCHANGED <<upVars, smVars, fcVars, brVars>>
    /\ UNCHANGED <<stop, early>>
    /\ UNCHANGED gets
    /\ UNCHANGED <<object, chunkSize, concurrency, totalSize, fileExists, file,
                   chunks, chunkStates, downloaded, chunkCh, errCh, spawned,
                   wpc, wchunk, wdata, werr, result>>

\* Mutant: wg.Wait() released by the first wg.Done().
SomeWorkerExited == spawned = 0 \/ \E w \in 1..spawned : wpc[w] = "exited"

\* wg.Wait() returns once every started worker has run its deferred wg.Done();
\* Join is wg.Wait() followed by close(stopProgress).
AllWorkersExited == \A w \in 1..spawned : wpc[w] = "exited"

Join ==
    /\ mpc = "wait"
    /\ AllWorkersExited
    /\ stop' = TRUE
    /\ mpc' = "collect"
    /\ UNCHANGED early
    /\ UNCHANGED <<upVars, smVars, fcVars, brVars>>
    /\ UNCHANGED gets
    /\ UNCHANGED <<object, chunkSize, concurrency, totalSize, fileExists, file,
                   chunks, chunkStates, downloaded, chunkCh, errCh, spawned,
                   wpc, wchunk, wdata, werr, result>>

\* <-progressDone; close(errCh); for err := range errCh { if err != nil
\* { return err } }; return nil
Collect ==
    /\ mpc = "collect"
    /\ spc \in {"off", "done"}
    /\ result' = FirstError(errCh)
    /\ file' = Close(file)
    /\ mpc' = "returned"
    /\ UNCHANGED <<upVars, smVars, fcVars, brVars>>
    /\ UNCHANGED <<stop, early>>
    /\ UNCHANGED gets
    /\ UNCHANGED <<object, chunkSize, concurrency, totalSize, fileExists,
                   chunks, chunkStates, downloaded, chunkCh, errCh, spawned,
                   wpc, wchunk, wdata, werr>>

\* ----------------------------------------------------------- worker goroutine
\* for c := range chunkCh: receive the next chunk ...
Recv(w) ==
    /\ wpc[w] = "recv"
    /\ Len(chunkCh) > 0
    /\ wchunk' = [wchunk EXCEPT ![w] = Head(chunkCh)]
    /\ chunkCh' = Dequeue(chunkCh)
    /\ wpc' = [wpc EXCEPT ![w] = "active"]
    /\ UNCHANGED <<upVars, smVars, fcVars, brVars>>
    /\ UNCHANGED <<stop, early>>
    /\ UNCHANGED gets
    /\ UNCHANGED <<object, chunkSize, concurrency, mpc, totalSize, fileExists,
                   file, chunks, chunkStates, downloaded, errCh, spawned,
                   wdata, werr, result>>

\* ... or leave the loop because the closed channel is empty; deferred wg.Done().
RecvClosed(w) ==
    /\ wpc[w] = "recv"
    /\ RangeEnds(chunkCh)
    /\ wpc' = [wpc EXCEPT ![w] = "exited"]
    /\ UNCHANGED <<upVars, smVars, fcVars, brVars>>
    /\ UNCHANGED <<stop, early>>
    /\ UNCHANGED gets
    /\ UNCHANGED <<object, chunkSize, concurrency, mpc, totalSize, fileExists,
                   file, chunks, chunkStates, downloaded, chunkCh, errCh,
                   spawned, wchunk, wdata, werr, result>>

\* pb.setState(c.index, stateDownloading)
SetDownloading(w) ==
    /\ wpc[w] = "active"
    /\ chunkStates' = setState(chunkStates, wchunk[w].index, stateDownloading)
    /\ wpc' = [wpc EXCEPT ![w] = "get"]
    /\ UNCHANGED <<upVars, smVars, fcVars, brVars>>
    /\ UNCHANGED <<stop, early>>
    /\ UNCHANGED gets
    /\ UNCHANGED <<object, chunkSize, concurrency, mpc, totalSize, fileExists,
                   file, chunks, downloaded, chunkCh, errCh, spawned, wchunk,
                   wdata, werr, result>>

\* data, err := s3ops.DownloadRange(...) with err == nil
DownloadRangeOk(w) ==
    /\ wpc[w] = "get"
    /\ LET r == RangeDownload(wchunk[w])
       IN  wdata' = [wdata EXCEPT ![w] = DownloadRange(object, r.start, r.end)]
    /\ gets' = RecordGet(gets, wchunk[w])
    /\ wpc' = [wpc EXCEPT ![w] = "write"]
    /\ UNCHANGED <<upVars, smVars, fcVars, brVars>>
    /\ UNCHANGED <<stop, early>>
    /\ UNCHANGED <<object, chunkSize, concurrency, mpc, totalSize, fileExists,
                   file, chunks, chunkStates, downloaded, chunkCh, errCh,
                   spawned, wchunk, werr, result>>

\* data, err := s3ops.DownloadRange(...) with err != nil
DownloadRangeFail(w) ==
    /\ wpc[w] = "get"
    /\ werr' = [werr EXCEPT ![w] = Err("DownloadRange", wchunk[w].index)]
    /\ gets' = RecordGet(gets, wchunk[w])
    /\ wpc' = [wpc EXCEPT ![w] = "failed"]
    /\ UNCHANGED <<upVars, smVars, fcVars, brVars>>
    /\ UNCHANGED <<stop, early>>
    /\ UNCHANGED <<object, chunkSize, concurrency, mpc, totalSize, fileExists,
                   file, chunks, chunkStates, downloaded, chunkCh, errCh,
                   spawned, wchunk, wdata, result>>

\* Mutant: the byte counter is not advanced after a successful write.
AfterWriteSkipAdd == "done"

\* After a successful write the worker advances the byte counter (run.go:361)
\* before it marks the chunk Done (run.go:362).
AfterWriteOk == "add"

\* f.WriteAt(data, c.start) with err == nil
WriteAtOk(w) ==
    /\ wpc[w] = "write"
    /\ file' = WriteAt(file, wdata[w], wchunk[w].start)
    /\ wpc' = [wpc EXCEPT ![w] = AfterWriteOk]
    /\ UNCHANGED <<upVars, smVars, fcVars, brVars>>
    /\ UNCHANGED <<stop, early>>
    /\ UNCHANGED gets
    /\ UNCHANGED <<object, chunkSize, concurrency, mpc, totalSize, fileExists,
                   chunks, chunkStates, downloaded, chunkCh, errCh, spawned,
                   wchunk, wdata, werr, result>>

\* f.WriteAt(data, c.start) with err != nil: os.File.WriteAt reports an error
\* whenever it wrote fewer than len(data) bytes, so any proper prefix of the
\* data (none of it included) may have reached the file.
WriteAtFail(w) ==
    /\ wpc[w] = "write"
    /\ \E n \in 0..(Len(wdata[w]) - 1) :
          file' = WriteAt(file, SubSeq(wdata[w], 1, n), wchunk[w].start)
    /\ werr' = [werr EXCEPT ![w] = Err("write", wchunk[w].index)]
    /\ wpc' = [wpc EXCEPT ![w] = "failed"]
    /\ UNCHANGED <<upVars, smVars, fcVars, brVars>>
    /\ UNCHANGED <<stop, early>>
    /\ UNCHANGED gets
    /\ UNCHANGED <<object, chunkSize, concurrency, mpc, totalSize, fileExists,
                   chunks, chunkStates, downloaded, chunkCh, errCh,
                   spawned, wchunk, wdata, result>>

\* pb.setState(c.index, stateFailed)
SetFailed(w) ==
    /\ wpc[w] = "failed"
    /\ chunkStates' = setState(chunkStates, wchunk[w].index, stateFailed)
    /\ wpc' = [wpc EXCEPT ![w] = "send"]
    /\ UNCHANGED <<upVars, smVars, fcVars, brVars>>
    /\ UNCHANGED <<stop, early>>
    /\ UNCHANGED gets
    /\ UNCHANGED <<object, chunkSize, concurrency, mpc, totalSize, fileExists,
                   file, chunks, downloaded, chunkCh, errCh, spawned, wchunk,
                   wdata, werr, result>>

\* The worker returns at run.go:352 with chunks still queued for its siblings.
ReturnsEarly(ch) == Len(ch) > 0

\* errCh <- fmt.Errorf(...); return   (the send blocks while the buffer is full)
SendErr(w) ==
    /\ wpc[w] = "send"
    /\ Len(errCh) < concurrency
    /\ errCh' = Append(errCh, werr[w])
    /\ wpc' = [wpc EXCEPT ![w] = "exited"]
    /\ early' = IF ReturnsEarly(chunkCh) THEN early \cup {w} ELSE early
    /\ UNCHANGED <<upVars, smVars, fcVars, brVars>>
    /\ UNCHANGED stop
    /\ UNCHANGED gets
    /\ UNCHANGED <<object, chunkSize, concurrency, mpc, totalSize, fileExists,
                   file, chunks, chunkStates, downloaded, chunkCh, spawned,
                   wchunk, wdata, werr, result>>

\* atomic.AddInt64(&downloaded, int64(len(data)))
AddDownloaded(w) ==
    /\ wpc[w] = "add"
    /\ downloaded' = downloaded + Len(wdata[w])
    /\ wpc' = [wpc EXCEPT ![w] = "done"]
    /\ UNCHANGED <<upVars, smVars, fcVars, brVars>>
    /\ UNCHANGED <<stop, early>>
    /\ UNCHANGED gets
    /\ UNCHANGED <<object, chunkSize, concurrency, mpc, totalSize, fileExists,
                   file, chunks, chunkStates, chunkCh, errCh, spawned, wchunk,
                   wdata, werr, result>>

\* pb.setState(c.index, stateDone), then back to the head of the range loop
SetDone(w) ==
    /\ wpc[w] = "done"
    /\ chunkStates' = setState(chunkStates, wchunk[w].index, stateDone)
    /\ wpc' = [wpc EXCEPT ![w] = "recv"]
    /\ UNCHANGED <<upVars, smVars, fcVars, brVars>>
    /\ UNCHANGED <<stop, early>>
    /\ UNCHANGED gets
    /\ UNCHANGED <<object, chunkSize, concurrency, mpc, totalSize, fileExists,
                   file, chunks, downloaded, chunkCh, errCh, spawned, wchunk,
                   wdata, werr, result>>

Worker(w) ==
    \/ Recv(w)
    \/ RecvClosed(w)
    \/ SetDownloading(w)
    \/ DownloadRangeOk(w)
    \/ DownloadRangeFail(w)
    \/ WriteAtOk(w)
    \/ WriteAtFail(w)
    \/ SetFailed(w)
    \/ SendErr(w)
    \/ AddDownloaded(w)
    \/ SetDone(w)

Next ==
    \/ HeadObjectOk
    \/ HeadObjectFail
    \/ OpenFileOk
    \/ OpenFileFail
    \/ TruncateOk
    \/ TruncateFail
    \/ Plan
    \/ Spawn
    \/ SpawnDone
    \/ Join
    \/ Collect
    \/ \E w \in Workers : Worker(w)

Spec == Init /\ [][Next]_vars

\* The planner alone: download() at its planning loop, the file pre-sized, for a
\* wider range of sizes than the full runs explore.
InitPlan ==
    /\ object \in {Content(n) : n \in 0..MaxPlanSize}
    /\ chunkSize \in 1..MaxPlanChunk
    /\ concurrency = 1
    /\ mpc = "plan"
    /\ totalSize = Len(object)
    /\ fileExists = TRUE
    /\ file = Zeros(totalSize)
    /\ chunks = <<>>
    /\ chunkStates = <<>>
    /\ downloaded = 0
    /\ chunkCh = <<>>
    /\ errCh = <<>>
    /\ gets = <<>>
    /\ stop = FALSE
    /\ early = {}
    /\ InitWorkers
    /\ result = Running
    /\ UploadIdle
    /\ SamplerOff
    /\ FactoryIdle
    /\ BrowserIdle

NextPlan == Plan

SpecPlan == InitPlan /\ [][NextPlan]_vars

\* ====================================================== progress sampler
\* progressBar.render and the goroutine of download() that calls it.  The clock
\* advances in units of a quarter of a second; float64 values are kept as exact
\* ratios, the constant factor 1/1024/1024 of the MB figures left out (it
\* cancels in the percent and in the ETA).
HalfSecond == 2
barWidth == 50

RECURSIVE GCD(_, _)
GCD(a, b) == IF b = 0 THEN a ELSE GCD(b, a % b)

\* The ratio n/d (n >= 0, d > 0) in lowest terms.
Ratio(n, d) == LET g == GCD(n, d) IN Rat(n \div g, d \div g)

\* Mutant: the speed is recomputed as soon as the clock has moved at all.
RecomputeEarly(elapsed) == elapsed >= 1

\* if elapsed >= 0.5
Recompute(elapsed) == elapsed >= HalfSecond

\* p.speedMBs = float64(delta) / elapsed / 1024 / 1024
Speed(delta, elapsed) == Ratio(delta, elapsed)

\* pct := doneMB / totalMB * 100; if pct > 100 { pct = 100 }.  With totalBytes
\* 0 the division is 0/0 = NaN when nothing was transferred (NaN > 100 is
\* false, so NaN stays) and +Inf otherwise (clamped to 100).
Pct(bytes, total) ==
    IF total = 0
    THEN IF bytes = 0 THEN NaN ELSE Rat(100, 1)
    ELSE IF bytes * 100 > 100 * total THEN Rat(100, 1) ELSE Ratio(bytes * 100, total)

\* pct < 100 (false for NaN)
Below100(pct) == pct.kind = "rat" /\ pct.n < 100 * pct.d

\* Mutant: the ETA computed from the whole size, not from what remains.
EtaOfTotal(bytes, total, sp, pct) ==
    IF sp.n > 0 /\ Below100(pct) THEN Ratio(total * sp.d, sp.n) ELSE Unknown

\* etaStr stays "-" unless p.speedMBs > 0 && pct < 100, and then
\* etaSec := remainMB / p.speedMBs with remainMB := totalMB - doneMB.
Eta(bytes, total, sp, pct) ==
    IF sp.n > 0 /\ Below100(pct) THEN Ratio((total - bytes) * sp.d, sp.n) ELSE Unknown

\* filled := int(float64(barWidth) * pct / 100) for a pct that is a number
Filled(pct) == (barWidth * pct.n) \div (100 * pct.d)

CountOf(states, st) == Cardinality({k \in 1..Len(states) : states[k] = st})

\* The five lines render prints, given the value int(...) took for filled.
Frame(bytes, total, sp, states, pct, filled) ==
    [kind |-> "frame", bytes |-> bytes, total |-> total, speed |-> sp,
     pct |-> pct, eta |-> Eta(bytes, total, sp, pct),
     filled |-> filled,
     waiting |-> CountOf(states, stateWaiting),
     downloading |-> CountOf(states, stateDownloading),
     done |-> CountOf(states, stateDone),
     failed |-> CountOf(states, stateFailed)]

\* The progress bar exists (newProgressBar has run) and its goroutine runs.
Sampling == spc = "ticking" /\ mpc \in {"spawn", "wait", "collect"}

\* The clock moves on by one unit.
Tick ==
    /\ Sampling
    /\ sinceLast < MaxElapsed
    /\ sinceLast' = sinceLast + 1
    /\ UNCHANGED <<spc, lastBytes, speed, rendered, snap>>
    /\ UNCHANGED <<dlVars, upVars, fcVars, brVars>>

\* One call of p.render(), the goroutine going to position after when render
\* returns.  For a NaN pct the conversion int(NaN) is implementation-dependent:
\* 0 on arm64, the most negative int on amd64, where strings.Repeat then
\* panics with a negative count and the process dies before anything is
\* printed.
render(after) ==
    LET bytes == downloaded
        re    == Recompute(sinceLast)
        sp    == IF re THEN Speed(bytes - lastBytes, sinceLast) ELSE speed
        pct   == Pct(bytes, totalSize)
    IN  /\ speed' = sp
        /\ lastBytes' = IF re THEN bytes ELSE lastBytes
        /\ sinceLast' = IF re THEN 0 ELSE sinceLast
        /\ rendered' = TRUE
        /\ \/ /\ pct.kind = "rat"
              /\ snap' = Frame(bytes, totalSize, sp, chunkStates, pct, Filled(pct))
              /\ spc' = after
           \/ /\ pct.kind = "nan"
              /\ snap' = Frame(bytes, totalSize, sp, chunkStates, pct, 0)
              /\ spc' = after
           \/ /\ pct.kind = "nan"
              /\ snap' = snap
              /\ spc' = "panicked"

\* case <-ticker.C: pb.render()
RenderTick ==
    /\ Sampling
    /\ render("ticking")
    /\ UNCHANGED <<dlVars, upVars, fcVars, brVars>>

\* case <-stopProgress: ticker.Stop(); pb.render(); return, and the deferred
\* close(progressDone)
RenderStop ==
    /\ Sampling
    /\ stop
    /\ render("done")
    /\ UNCHANGED <<dlVars, upVars, fcVars, brVars>>

\* download() with its progress goroutine.
SamplerOn ==
    /\ spc = "ticking"
    /\ sinceLast = 0
    /\ lastBytes = 0
    /\ speed = Rat(0, 1)
    /\ rendered = FALSE
    /\ snap = NoSnap

\* Runs with chunks of at least MinSampledChunk bytes.
InitSampled ==
    /\ InitDownload
    /\ SamplerOn
    /\ chunkSize >= MinSampledChunk

NextSampled ==
    \/ Next
    \/ Tick
    \/ RenderTick
    \/ RenderStop

SpecSampled == InitSampled /\ [][NextSampled]_vars

\* Runs of a single worker with chunks of any size, for the properties of
\* render itself.
InitRender ==
    /\ InitDownload
    /\ SamplerOn
    /\ concurrency = 1

SpecRender == InitRender /\ [][NextSampled]_vars

\* ===================================================== multipart upload
\* The three sequential multipart loops: "cmd" is uploadMultipart of
\* internal/cmd/upload/run.go, "s3ops" is s3ops.UploadMultipart (file.Read),
\* "reader" is s3ops.UploadMultipartWithReader (reader.ReadAt).
Variants == {"cmd", "s3ops", "reader"}

Tag == 1..MaxTag

\* partSizeBytes of uploadMultipart: 10 MiB when partSize <= 0; the s3ops loops
\* use partSize as given.
EffectivePartSize(variant, ps) ==
    IF variant = "cmd" /\ ps <= 0 THEN 10 * 1024 * 1024 ELSE ps

\* chunkSize := partSize; if remaining < chunkSize { chunkSize = remaining }
PartLen(size, off, ps) == IF size - off < ps THEN size - off ELSE ps

\* Mutant: every part read from the start of the source.
ReadAtStart(src, n, off) == [k \in 1..n |-> IF k <= Len(src) THEN src[k] ELSE 0]

\* buf := make([]byte, n); ReadAt(buf, off) / file.Read(buf) at position off:
\* the n bytes from off, what lies beyond the end of the source staying zero.
ReadAt(src, n, off) ==
    [k \in 1..n |-> IF off + k <= Len(src) THEN src[off + k] ELSE 0]

\* Mutant: the part recorded under its 0-based ordinal.
CompletedPartZeroBased(pn, etag) == [PartNumber |-> pn - 1, ETag |-> etag]

\* types.CompletedPart{ETag: uploadResp.ETag, PartNumber: aws.Int32(int32(partNumber))}
\* (int32(partNumber) is partNumber for every part count below 2^31)
CompletedPart(pn, etag) == [PartNumber |-> pn, ETag |-> etag]

Call(op, part, body, parts, status, tag) ==
    [op |-> op, part |-> part, body |-> body, parts |-> parts,
     status |-> status, tag |-> tag]

SourceSize == Len(source)

\* Mutant: the error of CreateMultipartUpload is not checked.
AfterCreateFailureContinue == "loop"

\* Where a failed CreateMultipartUpload leaves the function: returned.
AfterCreateFailure == "returned"

\* Mutant: a failed part is skipped over and the loop goes on.
AfterPartFailureContinue == "loop"

\* Where a failed UploadPart leaves the function: at the abort call that
\* precedes its return.
AfterPartFailure == "abort"

\* Mutant: a failing abort replaces the error that is returned.
ReturnAbortError(err, status) == IF status = "err" THEN Err("abort", 0) ELSE err

\* The abort's result is discarded: the function returns the error that led to
\* the abort, whatever the abort call answered.
ReturnAfterAbort(err, status) == err

\* Mutant: the failure paths return without the abort call.
IssueAbortSkipped(cs, status) == cs

\* client.AbortMultipartUpload(...) on a failure path, answered with status.
IssueAbort(cs, status) == Append(cs, Call("Abort", 0, <<>>, <<>>, status, 0))

\* No download in progress.
DownloadIdle ==
    /\ object = <<>>
    /\ chunkSize = 1
    /\ concurrency = 1
    /\ mpc = "idle"
    /\ totalSize = 0
    /\ fileExists = FALSE
    /\ file = <<>>
    /\ chunks = <<>>
    /\ chunkStates = <<>>
    /\ downloaded = 0
    /\ chunkCh = <<>>
    /\ errCh = <<>>
    /\ gets = <<>>
    /\ stop = FALSE
    /\ early = {}
    /\ InitWorkers
    /\ result = Running

\* The loops are followed for at most this many parts: one more than a source
\* of MaxSource bytes can have when every part carries at least one byte.
MaxParts == MaxSource + 1

\* A multipart upload about to issue CreateMultipartUpload, with the part
\* size left to the specification.
UploadStart ==
    /\ RunIdle
    /\ uVariant \in Variants
    /\ source \in {Content(n) : n \in 0..MaxSource}
    /\ upc = "create"
    /\ offset = 0
    /\ partNumber = 1
    /\ buf = <<>>
    /\ filePos = 0
    /\ completedParts = <<>>
    /\ calls = <<>>
    /\ uerr = Nil
    /\ uresult = Running
    /\ DownloadIdle
    /\ SamplerOff
    /\ FactoryIdle
    /\ BrowserIdle

InitUpload ==
    /\ partSize \in 1..MaxPartSize
    /\ UploadStart

\* client.CreateMultipartUpload succeeds; partNumber := 1; offset := 0
CreateOk ==
    /\ upc = "create"
    /\ calls' = Append(calls, Call("Create", 0, <<>>, <<>>, "ok", 0))
    /\ upc' = "loop"
    /\ UNCHANGED <<dlVars, smVars, fcVars, brVars, runVars>>
    /\ UNCHANGED <<uVariant, source, partSize, offset, partNumber, buf,
                   filePos, completedParts, uerr, uresult>>

\* client.CreateMultipartUpload fails: return the error
CreateFail ==
    /\ upc = "create"
    /\ calls' = Append(calls, Call("Create", 0, <<>>, <<>>, "err", 0))
    /\ uresult' = Err("create", 0)
    /\ upc' = AfterCreateFailure
    /\ UNCHANGED <<dlVars, smVars, fcVars, brVars, runVars>>
    /\ UNCHANGED <<uVariant, source, partSize, offset, partNumber, buf,
                   filePos, completedParts, uerr>>

\* for offset < size { ...; buf := make([]byte, chunkSize); read succeeds
ReadOk ==
    /\ upc = "loop"
    /\ offset < SourceSize
    /\ partNumber <= MaxParts
    /\ PartLen(SourceSize, offset, EffectivePartSize(uVariant, partSize)) >= 0
    /\ LET n == PartLen(SourceSize, offset, EffectivePartSize(uVariant, partSize))
       IN  IF uVariant = "s3ops"
           THEN /\ buf' = ReadAt(source, n, filePos)
                /\ filePos' = IF filePos + n > SourceSize THEN SourceSize
                              ELSE filePos + n
           ELSE /\ buf' = ReadAt(source, n, offset)
                /\ filePos' = filePos
    /\ upc' = "part"
    /\ UNCHANGED <<dlVars, smVars, fcVars, brVars, runVars>>
    /\ UNCHANGED <<uVariant, source, partSize, offset, partNumber,
                   completedParts, calls, uerr, uresult>>

\* the read fails: AbortMultipartUpload, then return the read error
ReadFail ==
    /\ upc = "loop"
    /\ offset < SourceSize
    /\ PartLen(SourceSize, offset, EffectivePartSize(uVariant, partSize)) >= 0
    /\ uerr' = Err("read", partNumber)
    /\ upc' = "abort"
    /\ UNCHANGED <<dlVars, smVars, fcVars, brVars, runVars>>
    /\ UNCHANGED <<uVariant, source, partSize, offset, partNumber, buf,
                   filePos, completedParts, calls, uresult>>

\* client.UploadPart(PartNumber: int32(partNumber), Body: string(buf)) is issued
UploadPartCall ==
    /\ upc = "part"
    /\ calls' = Append(calls,
                    Call("UploadPart", partNumber, buf, <<>>, "pending", 0))
    /\ upc' = "partwait"
    /\ UNCHANGED <<dlVars, smVars, fcVars, brVars, runVars>>
    /\ UNCHANGED <<uVariant, source, partSize, offset, partNumber, buf,
                   filePos, completedParts, uerr, uresult>>

\* UploadPart answers with an ETag: append the completed part, advance
UploadPartOk ==
    /\ upc = "partwait"
    /\ \E t \in Tag :
          /\ calls' = [calls EXCEPT ![Len(calls)].status = "ok",
                                    ![Len(calls)].tag = t]
          /\ completedParts' = Append(completedParts, CompletedPart(partNumber, t))
    /\ offset' = offset + Len(buf)
    /\ partNumber' = partNumber + 1
    /\ upc' = "loop"
    /\ UNCHANGED <<dlVars, smVars, fcVars, brVars, runVars>>
    /\ UNCHANGED <<uVariant, source, partSize, buf, filePos, uerr, uresult>>

\* UploadPart fails: AbortMultipartUpload, then return the part's error
UploadPartFail ==
    /\ upc = "partwait"
    /\ calls' = [calls EXCEPT ![Len(calls)].status = "err"]
    /\ uerr' = Err("part", partNumber)
    /\ upc' = AfterPartFailure
    /\ UNCHANGED <<dlVars, smVars, fcVars, brVars, runVars>>
    /\ UNCHANGED <<uVariant, source, partSize, offset, partNumber, buf,
                   filePos, completedParts, uresult>>

\* client.AbortMultipartUpload(...), its result discarded; return the error
AbortOk ==
    /\ upc = "abort"
    /\ calls' = IssueAbort(calls, "ok")
    /\ uresult' = ReturnAfterAbort(uerr, "ok")
    /\ upc' = "returned"
    /\ UNCHANGED <<dlVars, smVars, fcVars, brVars, runVars>>
    /\ UNCHANGED <<uVariant, source, partSize, offset, partNumber, buf,
                   filePos, completedParts, uerr>>

AbortFail ==
    /\ upc = "abort"
    /\ calls' = IssueAbort(calls, "err")
    /\ uresult' = ReturnAfterAbort(uerr, "err")
    /\ upc' = "returned"
    /\ UNCHANGED <<dlVars, smVars, fcVars, brVars, runVars>>
    /\ UNCHANGED <<uVariant, source, partSize, offset, partNumber, buf,
                   filePos, completedParts, uerr>>

\* the loop is over: client.CompleteMultipartUpload(Parts: completedParts) succeeds
CompleteOk ==
    /\ upc = "loop"
    /\ ~(offset < SourceSize)
    /\ calls' = Append(calls, Call("Complete", 0, <<>>, completedParts, "ok", 0))
    /\ uresult' = Nil
    /\ upc' = "returned"
    /\ UNCHANGED <<dlVars, smVars, fcVars, brVars, runVars>>
    /\ UNCHANGED <<uVariant, source, partSize, offset, partNumber, buf,
                   filePos, completedParts, uerr>>

\* client.CompleteMultipartUpload fails: return the error
CompleteFail ==
    /\ upc = "loop"
    /\ ~(offset < SourceSize)
    /\ calls' = Append(calls, Call("Complete", 0, <<>>, completedParts, "err", 0))
    /\ uresult' = Err("complete", 0)
    /\ upc' = "returned"
    /\ UNCHANGED <<dlVars, smVars, fcVars, brVars, runVars>>
    /\ UNCHANGED <<uVariant, source, partSize, offset, partNumber, buf,
                   filePos, completedParts, uerr>>

NextUpload ==
    \/ CreateOk
    \/ CreateFail
    \/ ReadOk
    \/ ReadFail
    \/ UploadPartCall
    \/ UploadPartOk
    \/ UploadPartFail
    \/ AbortOk
    \/ AbortFail
    \/ CompleteOk
    \/ CompleteFail

SpecUpload == InitUpload /\ [][NextUpload]_vars

\* The loops called with any part size.  In the s3ops loops chunkSize is the
\* part size as given: a negative one reaches make([]byte, chunkSize), which
\* panics; uploadMultipart replaces a part size <= 0 by 10 MiB first.
AnyPartSize == {-1, 0} \cup (1..MaxPartSize)

InitUploadAny ==
    /\ partSize \in AnyPartSize
    /\ UploadStart

\* buf := make([]byte, chunkSize) with chunkSize < 0: runtime panic
MakePanics ==
    /\ upc = "loop"
    /\ offset < SourceSize
    /\ PartLen(SourceSize, offset, EffectivePartSize(uVariant, partSize)) < 0
    /\ upc' = "panicked"
    /\ UNCHANGED <<dlVars, smVars, fcVars, brVars, runVars>>
    /\ UNCHANGED <<uVariant, source, partSize, offset, partNumber, buf,
                   filePos, completedParts, calls, uerr, uresult>>

NextUploadAny ==
    \/ NextUpload
    \/ MakePanics

SpecUploadAny == InitUploadAny /\ [][NextUploadAny]_vars

\* ============================================================ upload.Run
\* The single-file branch of Run in internal/cmd/upload/run.go, from the
\* choice between uploadMultipart and uploadSingleFile on; the file can be
\* opened and its size read.
MiB == 1024 * 1024

\* int64(*partSizeMB)*1024*1024
PartSizeBytes(mb) == mb * MiB

\* Mutant: a file of exactly the part size goes the multipart way.
TakesMultipartAtLeast(flag, size, ps) == flag \/ size >= ps

\* if *multipart || stat.Size() > int64(*partSizeMB)*1024*1024
TakesMultipart(flag, size, ps) == flag \/ size > ps

\* The values of -part-size: negative, zero and positive.
AnyPartSizeMB == (-1)..MaxPartMB

InitUploadRun ==
    /\ multipart \in BOOLEAN
    /\ partSizeMB \in AnyPartSizeMB
    /\ uploadedBytes = 0
    /\ uVariant = "cmd"
    /\ source \in {Content(n) : n \in 0..MaxSource}
    /\ partSize = 0
    /\ upc = "dispatch"
    /\ offset = 0
    /\ partNumber = 1
    /\ buf = <<>>
    /\ filePos = 0
    /\ completedParts = <<>>
    /\ calls = <<>>
    /\ uerr = Nil
    /\ uresult = Running
    /\ DownloadIdle
    /\ SamplerOff
    /\ FactoryIdle
    /\ BrowserIdle

\* err = uploadMultipart(ctx, client, localPath, bucket, key,
\*                       int64(*partSizeMB)*1024*1024, meta)
RunMultipart ==
    /\ upc = "dispatch"
    /\ TakesMultipart(multipart, SourceSize, PartSizeBytes(partSizeMB))
    /\ partSize' = PartSizeBytes(partSizeMB)
    /\ upc' = "create"
    /\ UNCHANGED <<dlVars, smVars, fcVars, brVars, runVars>>
    /\ UNCHANGED <<uVariant, source, offset, partNumber, buf, filePos,
                   completedParts, calls, uerr, uresult>>

\* err = uploadSingleFile(ctx, client, localPath, bucket, key, meta, ...)
RunSingle ==
    /\ upc = "dispatch"
    /\ ~TakesMultipart(multipart, SourceSize, PartSizeBytes(partSizeMB))
    /\ upc' = "put"
    /\ UNCHANGED <<dlVars, smVars, fcVars, brVars, runVars>>
    /\ UNCHANGED <<uVariant, source, partSize, offset, partNumber, buf, filePos,
                   completedParts, calls, uerr, uresult>>

\* client.PutObject(Body: file, ContentLength: stat.Size()) succeeds
PutObjectOk ==
    /\ upc = "put"
    /\ calls' = Append(calls, Call("PutObject", 0, source, <<>>, "ok", 0))
    /\ uresult' = Nil
    /\ upc' = "returned"
    /\ UNCHANGED <<dlVars, smVars, fcVars, brVars, runVars>>
    /\ UNCHANGED <<uVariant, source, partSize, offset, partNumber, buf, filePos,
                   completedParts, uerr>>

\* client.PutObject fails: return the error
PutObjectFail ==
    /\ upc = "put"
    /\ calls' = Append(calls, Call("PutObject", 0, source, <<>>, "err", 0))
    /\ uresult' = Err("put", 0)
    /\ upc' = "returned"
    /\ UNCHANGED <<dlVars, smVars, fcVars, brVars, runVars>>
    /\ UNCHANGED <<uVariant, source, partSize, offset, partNumber, buf, filePos,
                   completedParts, uerr>>

NextUploadRun ==
    \/ RunMultipart
    \/ RunSingle
    \/ PutObjectOk
    \/ PutObjectFail
    \/ NextUpload

SpecUploadRun == InitUploadRun /\ [][NextUploadRun]_vars

\* ================================================== s3ops.MultipartUploader
\* One MultipartUploader whose methods are called one after another, in any
\* order, MaxOps times in all.
PartNumbers == {1, 2}

\* The data of an UploadPart call: nothing, or two bytes.
PartData == {Content(0), Content(2)}

Statuses == {"ok", "err"}

\* Mutant: uploadedBytes is set to the length of the last part.
AddBytesLast(total, data) == Len(data)

\* m.uploadedBytes += int64(len(data))
AddBytes(total, data) == total + Len(data)

InitUploader ==
    /\ multipart = FALSE
    /\ partSizeMB = 0
    /\ uploadedBytes = 0
    /\ uVariant = "uploader"
    /\ source = <<>>
    /\ partSize = 1
    /\ upc = "mpu"
    /\ offset = 0
    /\ partNumber = 1
    /\ buf = <<>>
    /\ filePos = 0
    /\ completedParts = <<>>
    /\ calls = <<>>
    /\ uerr = Nil
    /\ uresult = Running
    /\ DownloadIdle
    /\ SamplerOff
    /\ FactoryIdle
    /\ BrowserIdle

UploaderFrame ==
    /\ UNCHANGED <<dlVars, smVars, fcVars, brVars>>
    /\ UNCHANGED <<multipart, partSizeMB, uVariant, source, partSize, upc,
                   offset, partNumber, buf, filePos, uerr, uresult>>

\* m.Start(ctx): CreateMultipartUpload; m.uploadID is set on success
MStart ==
    /\ upc = "mpu"
    /\ Len(calls) < MaxOps
    /\ \E st \in Statuses :
          calls' = Append(calls, Call("Create", 0, <<>>, <<>>, st, 0))
    /\ UNCHANGED <<completedParts, uploadedBytes>>
    /\ UploaderFrame

\* m.UploadPart(ctx, partNumber, data) with err == nil: the part is appended
\* to m.completedParts and len(data) added to m.uploadedBytes
MUploadPartOk ==
    /\ upc = "mpu"
    /\ Len(calls) < MaxOps
    /\ \E pn \in PartNumbers, data \in PartData, t \in Tag :
          /\ calls' = Append(calls, Call("UploadPart", pn, data, <<>>, "ok", t))
          /\ completedParts' = Append(completedParts, CompletedPart(pn, t))
          /\ uploadedBytes' = AddBytes(uploadedBytes, data)
    /\ UploaderFrame

\* m.UploadPart(ctx, partNumber, data) with err != nil: return the error
MUploadPartFail ==
    /\ upc = "mpu"
    /\ Len(calls) < MaxOps
    /\ \E pn \in PartNumbers, data \in PartData :
          calls' = Append(calls, Call("UploadPart", pn, data, <<>>, "err", 0))
    /\ UNCHANGED <<completedParts, uploadedBytes>>
    /\ UploaderFrame

\* m.Complete(ctx): CompleteMultipartUpload(Parts: m.completedParts)
MComplete ==
    /\ upc = "mpu"
    /\ Len(calls) < MaxOps
    /\ \E st \in Statuses :
          calls' = Append(calls, Call("Complete", 0, <<>>, completedParts, st, 0))
    /\ UNCHANGED <<completedParts, uploadedBytes>>
    /\ UploaderFrame

\* m.Abort(ctx): AbortMultipartUpload
MAbort ==
    /\ upc = "mpu"
    /\ Len(calls) < MaxOps
    /\ \E st \in Statuses :
          calls' = Append(calls, Call("Abort", 0, <<>>, <<>>, st, 0))
    /\ UNCHANGED <<completedParts, uploadedBytes>>
    /\ UploaderFrame

NextUploader ==
    \/ MStart
    \/ MUploadPartOk
    \/ MUploadPartFail
    \/ MComplete
    \/ MAbort

SpecUploader == InitUploader /\ [][NextUploader]_vars

\* ========================================================= client cache
\* s3client.Factory: GetClient called by MaxCallers goroutines, MaxCalls times
\* in all, each call for one of the keys cacheKey(opts) can take, and
\* ClearCache called by one more goroutine, MaxClears times.
\* f.mu is a sync.RWMutex: any number of readers or one writer.
FactoryVarsRest == <<dlVars, upVars, smVars, brVars>>

\* A caller starts GetClient(ctx, opts): key := f.cacheKey(opts)
GetClient(c) ==
    /\ cpc[c] = "idle"
    /\ cleft > 0
    /\ \E k \in Keys : ckey' = [ckey EXCEPT ![c] = k]
    /\ cepoch' = [cepoch EXCEPT ![c] = epoch]
    /\ cleft' = cleft - 1
    /\ cpc' = [cpc EXCEPT ![c] = "rlock"]
    /\ rets' = [rets EXCEPT ![c] = NoReturn]
    /\ UNCHANGED <<clients, rwReaders, rwWriter, kpc, epoch, built>>
    /\ UNCHANGED <<copts, applied>>
    /\ UNCHANGED FactoryVarsRest

\* A caller starts GetClientWithOptions(ctx, opts, clientOpts...):
\* key := f.cacheKey(opts) + "|custom".  From there on the function repeats
\* the body of GetClient, and passes clientOpts to s3.NewFromConfig.
GetClientWithOptions(c) ==
    /\ cpc[c] = "idle"
    /\ cleft > 0
    /\ \E k \in Keys : ckey' = [ckey EXCEPT ![c] = CustomKey(k)]
    /\ \E o \in ClientOpts : copts' = [copts EXCEPT ![c] = o]
    /\ cepoch' = [cepoch EXCEPT ![c] = epoch]
    /\ cleft' = cleft - 1
    /\ cpc' = [cpc EXCEPT ![c] = "rlock"]
    /\ rets' = [rets EXCEPT ![c] = NoReturn]
    /\ UNCHANGED <<clients, rwReaders, rwWriter, kpc, epoch, built, applied>>
    /\ UNCHANGED FactoryVarsRest

\* f.mu.RLock()
RLock(c) ==
    /\ cpc[c] = "rlock"
    /\ rwWriter = NoOne
    /\ rwReaders' = rwReaders \cup {c}
    /\ cpc' = [cpc EXCEPT ![c] = "rcheck"]
    /\ UNCHANGED <<clients, rwWriter, ckey, cepoch, cleft, kpc, epoch, built, rets>>
    /\ UNCHANGED <<copts, applied>>
    /\ UNCHANGED FactoryVarsRest

\* What a call hands back to its caller.  On return ckey and cepoch, which
\* stand for the call's locals, go back to their idle values.
Return(c, client, err) ==
    [key |-> ckey[c], client |-> client, err |-> err,
     from |-> cepoch[c], to |-> epoch, opts |-> copts[c]]

\* if client, ok := f.clients[key]; ok
Cached(m, key) == m[key] # NoClient

\* ... { f.mu.RUnlock(); return client, nil }
RHit(c) ==
    /\ cpc[c] = "rcheck"
    /\ Cached(clients, ckey[c])
    /\ rwReaders' = rwReaders \ {c}
    /\ rets' = [rets EXCEPT ![c] = Return(c, clients[ckey[c]], FALSE)]
    /\ cpc' = [cpc EXCEPT ![c] = "idle"]
    /\ ckey' = [ckey EXCEPT ![c] = 1]
    /\ cepoch' = [cepoch EXCEPT ![c] = 0]
    /\ UNCHANGED <<clients, rwWriter, cleft, kpc, epoch, built>>
    /\ copts' = [copts EXCEPT ![c] = NoOpts]
    /\ UNCHANGED applied
    /\ UNCHANGED FactoryVarsRest

\* the key is not there: f.mu.RUnlock()
RMiss(c) ==
    /\ cpc[c] = "rcheck"
    /\ ~Cached(clients, ckey[c])
    /\ rwReaders' = rwReaders \ {c}
    /\ cpc' = [cpc EXCEPT ![c] = "lock"]
    /\ UNCHANGED <<clients, rwWriter, ckey, cepoch, cleft, kpc, epoch, built, rets>>
    /\ UNCHANGED <<copts, applied>>
    /\ UNCHANGED FactoryVarsRest

\* f.mu.Lock(); defer f.mu.Unlock()
Lock(c) ==
    /\ cpc[c] = "lock"
    /\ rwWriter = NoOne
    /\ rwReaders = {}
    /\ rwWriter' = c
    /\ cpc' = [cpc EXCEPT ![c] = "wcheck"]
    /\ UNCHANGED <<clients, rwReaders, ckey, cepoch, cleft, kpc, epoch, built, rets>>
    /\ UNCHANGED <<copts, applied>>
    /\ UNCHANGED FactoryVarsRest

\* Mutant: the map is not looked at again under the write lock.
RecheckSkipped(m, key) == FALSE

\* the second `if client, ok := f.clients[key]; ok`, under the write lock
Recheck(m, key) == m[key] # NoClient

\* ... { return client, nil } and the deferred Unlock
WHit(c) ==
    /\ cpc[c] = "wcheck"
    /\ Recheck(clients, ckey[c])
    /\ rwWriter' = NoOne
    /\ rets' = [rets EXCEPT ![c] = Return(c, clients[ckey[c]], FALSE)]
    /\ cpc' = [cpc EXCEPT ![c] = "idle"]
    /\ ckey' = [ckey EXCEPT ![c] = 1]
    /\ cepoch' = [cepoch EXCEPT ![c] = 0]
    /\ UNCHANGED <<clients, rwReaders, cleft, kpc, epoch, built>>
    /\ copts' = [copts EXCEPT ![c] = NoOpts]
    /\ UNCHANGED applied
    /\ UNCHANGED FactoryVarsRest

\* config.Load fails: return nil, err and the deferred Unlock
LoadFail(c) ==
    /\ cpc[c] = "wcheck"
    /\ ~Recheck(clients, ckey[c])
    /\ rwWriter' = NoOne
    /\ rets' = [rets EXCEPT ![c] = Return(c, NoClient, TRUE)]
    /\ cpc' = [cpc EXCEPT ![c] = "idle"]
    /\ ckey' = [ckey EXCEPT ![c] = 1]
    /\ cepoch' = [cepoch EXCEPT ![c] = 0]
    /\ UNCHANGED <<clients, rwReaders, cleft, kpc, epoch, built>>
    /\ copts' = [copts EXCEPT ![c] = NoOpts]
    /\ UNCHANGED applied
    /\ UNCHANGED FactoryVarsRest

\* client := s3.NewFromConfig(awsCfg): a client no one has seen before.
NewClient == Cardinality(built) + 1

\* config.Load succeeds; client := s3.NewFromConfig(awsCfg); f.clients[key] = client
Store(c) ==
    /\ cpc[c] = "wcheck"
    /\ ~Recheck(clients, ckey[c])
    /\ clients' = [clients EXCEPT ![ckey[c]] = NewClient]
    /\ built' = built \cup {[key |-> ckey[c], epoch |-> epoch, client |-> NewClient]}
    /\ applied' = applied \cup {[client |-> NewClient, opts |-> copts[c]]}
    /\ cpc' = [cpc EXCEPT ![c] = "stored"]
    /\ UNCHANGED <<rwReaders, rwWriter, ckey, cepoch, cleft, kpc, epoch, rets>>
    /\ UNCHANGED copts
    /\ UNCHANGED FactoryVarsRest

\* return client, nil and the deferred Unlock
StoredReturn(c) ==
    /\ cpc[c] = "stored"
    /\ rwWriter' = NoOne
    /\ rets' = [rets EXCEPT ![c] = Return(c, clients[ckey[c]], FALSE)]
    /\ cpc' = [cpc EXCEPT ![c] = "idle"]
    /\ ckey' = [ckey EXCEPT ![c] = 1]
    /\ cepoch' = [cepoch EXCEPT ![c] = 0]
    /\ UNCHANGED <<clients, rwReaders, cleft, kpc, epoch, built>>
    /\ copts' = [copts EXCEPT ![c] = NoOpts]
    /\ UNCHANGED applied
    /\ UNCHANGED FactoryVarsRest

\* ClearCache: f.mu.Lock()
ClearLock ==
    /\ kpc = "idle"
    /\ epoch < MaxClears
    /\ rwWriter = NoOne
    /\ rwReaders = {}
    /\ rwWriter' = Clearer
    /\ kpc' = "locked"
    /\ UNCHANGED <<clients, rwReaders, cpc, ckey, cepoch, cleft, epoch, built, rets>>
    /\ UNCHANGED <<copts, applied>>
    /\ UNCHANGED FactoryVarsRest

\* f.clients = make(map[string]*s3.Client) and the deferred Unlock
ClearCache ==
    /\ kpc = "locked"
    /\ clients' = [k \in AllKeys |-> NoClient]
    /\ epoch' = epoch + 1
    /\ rwWriter' = NoOne
    /\ kpc' = "idle"
    /\ UNCHANGED <<rwReaders, cpc, ckey, cepoch, cleft, built, rets>>
    /\ UNCHANGED <<copts, applied>>
    /\ UNCHANGED FactoryVarsRest

InitFactory ==
    /\ clients = [k \in AllKeys |-> NoClient]
    /\ rwReaders = {}
    /\ rwWriter = NoOne
    /\ cpc = [c \in Callers |-> "idle"]
    /\ ckey = [c \in Callers |-> 1]
    /\ cepoch = [c \in Callers |-> 0]
    /\ cleft = MaxCalls
    /\ kpc = "idle"
    /\ epoch = 0
    /\ built = {}
    /\ rets = [c \in Callers |-> NoReturn]
    /\ copts = [c \in Callers |-> NoOpts]
    /\ applied = {}
    /\ DownloadIdle
    /\ UploadIdle
    /\ SamplerOff
    /\ BrowserIdle

NextFactory ==
    \/ \E c \in Callers :
          \/ GetClient(c)
          \/ RLock(c)
          \/ RHit(c)
          \/ RMiss(c)
          \/ Lock(c)
          \/ WHit(c)
          \/ LoadFail(c)
          \/ Store(c)
          \/ StoredReturn(c)
    \/ ClearLock
    \/ ClearCache

SpecFactory == InitFactory /\ [][NextFactory]_vars

\* The factory called through GetClient and GetClientWithOptions alike.
NextFactoryOpts ==
    \/ NextFactory
    \/ \E c \in Callers : GetClientWithOptions(c)

SpecFactoryOpts == InitFactory /\ [][NextFactoryOpts]_vars

\* ================================================= interactive browser
\* The bubbletea model of package connect: the program hands every message
\* to Update and then calls View.  loadBuckets, loadObjects and the download
\* started by Enter run as commands beside it and deliver their message
\* later.  Of the model's fields those are kept that Update and View index
\* or branch on.  Not kept are what is only shown: the loading flag, the task
\* history, the status line, the prefix; and bucket names are not told apart:
\* every name is the token 1, the empty string 0.  The window keeps the size
\* it starts with (no tea.WindowSizeMsg), which gives a view height of 5.
BrowserRest == <<dlVars, upVars, smVars, fcVars>>

\* h := m.height - 9; if h < 5 { h = 5 }
getViewHeight(h) == IF h - 9 < 5 THEN 5 ELSE h - 9

paneHeight == getViewHeight(height)

\* The lengths of the listings: empty, shorter than a page, longer than one.
ListSizes == {0, 2, MaxList}

\* A listing of n buckets.
BucketList(n) == [i \in 1..n |-> 1]

\* A listing of n entries of which the first d are directories, as the
\* IsDir flags of the entries.
ObjectList(d, n) == [i \in 1..n |-> i <= d]

ObjectLists == {ObjectList(d, n) : d \in 0..1, n \in ListSizes}

\* list[i] in Go: in range for 0 <= i < len(list), a runtime panic otherwise.
InRange(i, list) == 0 <= i /\ i < Len(list)

AtLeastZero(n) == IF n < 0 THEN 0 ELSE n

\* The index expressions of View (part_001:429-632):
\* the two listing loops and the METADATA column.
ViewInRange ==
    \/ modelErr
    \/ /\ LET endB == IF offsetBucket + paneHeight - 1 > Len(buckets)
                      THEN Len(buckets) ELSE offsetBucket + paneHeight - 1
          IN  \A i \in offsetBucket..(endB - 1) : InRange(i, buckets)
       /\ LET endO == IF offsetObject + (paneHeight - 2) > Len(objects)
                      THEN Len(objects) ELSE offsetObject + (paneHeight - 2)
          IN  \A i \in offsetObject..(endO - 1) : InRange(i, objects)
       /\ IF activePane = paneBuckets /\ Len(buckets) > 0
          THEN InRange(cursorBucket, buckets)
          ELSE IF activePane = paneObjects /\ Len(objects) > 0
               THEN InRange(cursorObject, objects)
               ELSE TRUE

\* The program after Update returned: it calls View on the new model.
Rendered == bpc' = IF ViewInRange' THEN "running" ELSE "panicked"

\* An index expression of Update that is out of range: the program dies with
\* the model as it was.
UpdatePanics ==
    /\ bpc' = "panicked"
    /\ UNCHANGED <<activePane, overlay, buckets, objects, cursorBucket,
                   cursorObject, offsetBucket, offsetObject, bucket, history,
                   modelErr, height, downloading, loadsBuckets,
                   loadsObjects, running>>

\* Fields no cursor key touches.
KeepLists == UNCHANGED <<activePane, overlay, buckets, objects, bucket, history,
                         modelErr, height, downloading, loadsBuckets,
                         loadsObjects, running>>

\* The cursor and offset of the active pane become c and o.
MoveTo(c, o) ==
    IF activePane = paneBuckets
    THEN /\ cursorBucket' = c
         /\ offsetBucket' = o
         /\ UNCHANGED <<cursorObject, offsetObject>>
    ELSE /\ cursorObject' = c
         /\ offsetObject' = o
         /\ UNCHANGED <<cursorBucket, offsetBucket>>

\* The program starts: Init() issues loadBuckets.
InitBrowser ==
    /\ bpc = "running"
    /\ loadsBuckets = 1
    /\ loadsObjects = 0
    /\ BrowserFields
    /\ DownloadIdle
    /\ UploadIdle
    /\ SamplerOff
    /\ FactoryIdle

\* "esc" or "q" while an overlay is open: the overlay is closed
KeyEsc ==
    /\ bpc = "running"
    /\ overlay # overlayNone
    /\ overlay' = overlayNone
    /\ UNCHANGED <<activePane, buckets, objects, cursorBucket, cursorObject,
                   offsetBucket, offsetObject, bucket, history,
                   modelErr, height, downloading, loadsBuckets, loadsObjects,
                   running>>
    /\ Rendered
    /\ UNCHANGED BrowserRest

\* keys.Quit ("q" with no overlay open, "ctrl+c"): tea.Quit.  The program
\* returns and its model is dropped.
KeyQuit ==
    /\ bpc = "running"
    /\ bpc' = "quit"
    /\ activePane' = paneBuckets
    /\ overlay' = overlayNone
    /\ buckets' = <<>>
    /\ objects' = <<>>
    /\ cursorBucket' = 0
    /\ cursorObject' = 0
    /\ offsetBucket' = 0
    /\ offsetObject' = 0
    /\ bucket' = 0
    /\ history' = 0
    /\ modelErr' = FALSE
    /\ height' = 0
    /\ downloading' = FALSE
    /\ loadsBuckets' = 0
    /\ loadsObjects' = 0
    /\ running' = 0
    /\ UNCHANGED BrowserRest

KeyHome ==
    /\ bpc = "running"
    /\ MoveTo(0, 0)
    /\ KeepLists
    /\ Rendered
    /\ UNCHANGED BrowserRest

KeyEnd ==
    /\ bpc = "running"
    /\ IF activePane = paneBuckets
       THEN MoveTo(Len(buckets) - 1,
                   AtLeastZero(Len(buckets) - 1 - paneHeight + 1))
       ELSE MoveTo(Len(objects) - 1,
                   AtLeastZero(Len(objects) - 1 - paneHeight + 2))
    /\ KeepLists
    /\ Rendered
    /\ UNCHANGED BrowserRest

KeyPageUp ==
    /\ bpc = "running"
    /\ IF activePane = paneBuckets
       THEN MoveTo(AtLeastZero(cursorBucket - paneHeight),
                   AtLeastZero(cursorBucket - paneHeight))
       ELSE MoveTo(AtLeastZero(cursorObject - paneHeight),
                   AtLeastZero(cursorObject - paneHeight))
    /\ KeepLists
    /\ Rendered
    /\ UNCHANGED BrowserRest

\* m.cursor += paneHeight; if m.cursor >= len(list) { m.cursor = len(list) - 1 }
PageDownCursor(cursor, list) ==
    IF cursor + paneHeight >= Len(list) THEN Len(list) - 1
    ELSE cursor + paneHeight

KeyPageDown ==
    /\ bpc = "running"
    /\ IF activePane = paneBuckets
       THEN LET c == PageDownCursor(cursorBucket, buckets)
            IN  MoveTo(c, AtLeastZero(c - paneHeight + 1))
       ELSE LET c == PageDownCursor(cursorObject, objects)
            IN  MoveTo(c, AtLeastZero(c - paneHeight + 2))
    /\ KeepLists
    /\ Rendered
    /\ UNCHANGED BrowserRest

KeyCmdPalette ==
    /\ bpc = "running"
    /\ overlay' = overlayPalette
    /\ UNCHANGED <<activePane, buckets, objects, cursorBucket, cursorObject,
                   offsetBucket, offsetObject, bucket, history,
                   modelErr, height, downloading, loadsBuckets, loadsObjects,
                   running>>
    /\ Rendered
    /\ UNCHANGED BrowserRest

KeyTab ==
    /\ bpc = "running"
    /\ activePane' = IF overlay = overlayNone
                     THEN (IF activePane = paneBuckets THEN paneObjects
                           ELSE paneBuckets)
                     ELSE activePane
    /\ UNCHANGED <<overlay, buckets, objects, cursorBucket, cursorObject,
                   offsetBucket, offsetObject, bucket, history,
                   modelErr, height, downloading, loadsBuckets, loadsObjects,
                   running>>
    /\ Rendered
    /\ UNCHANGED BrowserRest

KeyUp ==
    /\ bpc = "running"
    /\ IF activePane = paneBuckets
       THEN IF cursorBucket > 0
            THEN MoveTo(cursorBucket - 1,
                        IF cursorBucket - 1 < offsetBucket
                        THEN cursorBucket - 1 ELSE offsetBucket)
            ELSE MoveTo(cursorBucket, offsetBucket)
       ELSE IF cursorObject > 0
            THEN MoveTo(cursorObject - 1,
                        IF cursorObject - 1 < offsetObject
                        THEN cursorObject - 1 ELSE offsetObject)
            ELSE MoveTo(cursorObject, offsetObject)
    /\ KeepLists
    /\ Rendered
    /\ UNCHANGED BrowserRest

KeyDown ==
    /\ bpc = "running"
    /\ IF activePane = paneBuckets
       THEN IF cursorBucket < Len(buckets) - 1
            THEN MoveTo(cursorBucket + 1,
                        IF cursorBucket + 1 >= offsetBucket + paneHeight
                        THEN cursorBucket + 1 - paneHeight + 1
                        ELSE offsetBucket)
            ELSE MoveTo(cursorBucket, offsetBucket)
       ELSE IF cursorObject < Len(objects) - 1
            THEN MoveTo(cursorObject + 1,
                        IF cursorObject + 1 >= offsetObject + paneHeight - 1
                        THEN cursorObject + 1 - paneHeight + 2
                        ELSE offsetObject)
            ELSE MoveTo(cursorObject, offsetObject)
    /\ KeepLists
    /\ Rendered
    /\ UNCHANGED BrowserRest

\* Enter in the bucket pane: the bucket under the cursor is opened
KeyEnterBucket ==
    /\ bpc = "running"
    /\ activePane = paneBuckets
    /\ Len(buckets) > 0
    /\ loadsObjects < MaxLoads
    /\ IF InRange(cursorBucket, buckets)
       THEN /\ bucket' = buckets[cursorBucket + 1]
            /\ history' = 0
            /\ activePane' = paneObjects
            /\ offsetObject' = 0
            /\ cursorObject' = 0
                    /\ loadsObjects' = loadsObjects + 1
            /\ UNCHANGED <<overlay, buckets, objects, cursorBucket,
                           offsetBucket, modelErr, height, downloading,
                           loadsBuckets, running>>
            /\ Rendered
       ELSE UpdatePanics
    /\ UNCHANGED BrowserRest

\* Enter in the object pane on a directory: the prefix is entered
KeyEnterDir ==
    /\ bpc = "running"
    /\ activePane = paneObjects
    /\ Len(objects) > 0
    /\ loadsObjects < MaxLoads
    /\ history < MaxDepth
    /\ InRange(cursorObject, objects)
    /\ objects[cursorObject + 1]
    /\ history' = history + 1
    /\ cursorObject' = 0
    /\ offsetObject' = 0
    /\ loadsObjects' = loadsObjects + 1
    /\ UNCHANGED <<activePane, overlay, buckets, objects, cursorBucket,
                   offsetBucket, bucket, modelErr, height, downloading,
                   loadsBuckets, running>>
    /\ Rendered
    /\ UNCHANGED BrowserRest

\* Enter in the object pane on a file: m.startDownload(obj) sets
\* m.downloading and returns the command that downloads the object
startDownload ==
    /\ bpc = "running"
    /\ activePane = paneObjects
    /\ Len(objects) > 0
    /\ running < MaxDownloads
    /\ InRange(cursorObject, objects)
    /\ ~objects[cursorObject + 1]
    /\ downloading' = TRUE
    /\ running' = running + 1
    /\ UNCHANGED <<activePane, overlay, buckets, objects, cursorBucket,
                   cursorObject, offsetBucket, offsetObject, bucket, history,
                   modelErr, height, loadsBuckets, loadsObjects>>
    /\ Rendered
    /\ UNCHANGED BrowserRest

\* Enter or Delete in the object pane with the cursor outside the list:
\* obj := m.objects[m.cursorObject] panics.  (With the cursor inside the list
\* Delete, like Upload, only adds a line to the task history.)
KeyOnObjectPanics ==
    /\ bpc = "running"
    /\ activePane = paneObjects
    /\ Len(objects) > 0
    /\ ~InRange(cursorObject, objects)
    /\ UpdatePanics
    /\ UNCHANGED BrowserRest

\* Back in the object pane: up one prefix, or over to the bucket pane
KeyBack ==
    /\ bpc = "running"
    /\ activePane = paneObjects
    /\ IF history > 0
       THEN /\ loadsObjects < MaxLoads
            /\ history' = history - 1
            /\ cursorObject' = 0
            /\ offsetObject' = 0
                    /\ loadsObjects' = loadsObjects + 1
            /\ UNCHANGED activePane
       ELSE /\ activePane' = paneBuckets
            /\ UNCHANGED <<history, cursorObject, offsetObject,
                           loadsObjects>>
    /\ UNCHANGED <<overlay, buckets, objects, cursorBucket, offsetBucket,
                   bucket, modelErr, height, downloading, loadsBuckets,
                   running>>
    /\ Rendered
    /\ UNCHANGED BrowserRest

\* Refresh: the list of the active pane is loaded again
KeyRefresh ==
    /\ bpc = "running"
    /\ IF activePane = paneBuckets \/ bucket = 0
       THEN /\ loadsBuckets < MaxLoads
            /\ loadsBuckets' = loadsBuckets + 1
            /\ UNCHANGED loadsObjects
       ELSE /\ loadsObjects < MaxLoads
            /\ loadsObjects' = loadsObjects + 1
            /\ UNCHANGED loadsBuckets
    /\ UNCHANGED <<activePane, overlay, buckets, objects, cursorBucket,
                   cursorObject, offsetBucket, offsetObject, bucket, history,
                   modelErr, height, downloading, running>>
    /\ Rendered
    /\ UNCHANGED BrowserRest

\* case bucketsMsg: m.buckets = msg; m.loading = false
BucketsMsg ==
    /\ bpc = "running"
    /\ loadsBuckets > 0
    /\ \E n \in ListSizes : buckets' = BucketList(n)
    /\ loadsBuckets' = loadsBuckets - 1
    /\ UNCHANGED <<activePane, overlay, objects, cursorBucket, cursorObject,
                   offsetBucket, offsetObject, bucket, history, modelErr,
                   height, downloading, loadsObjects, running>>
    /\ Rendered
    /\ UNCHANGED BrowserRest

\* case objectsMsg: m.objects = msg; m.loading = false
ObjectsMsg ==
    /\ bpc = "running"
    /\ loadsObjects > 0
    /\ \E list \in ObjectLists : objects' = list
    /\ loadsObjects' = loadsObjects - 1
    /\ UNCHANGED <<activePane, overlay, buckets, cursorBucket, cursorObject,
                   offsetBucket, offsetObject, bucket, history, modelErr,
                   height, downloading, loadsBuckets, running>>
    /\ Rendered
    /\ UNCHANGED BrowserRest

\* case error: a load command returned its error: m.err = msg
ErrorMsg ==
    /\ bpc = "running"
    /\ \/ /\ loadsBuckets > 0
          /\ loadsBuckets' = loadsBuckets - 1
          /\ UNCHANGED loadsObjects
       \/ /\ loadsObjects > 0
          /\ loadsObjects' = loadsObjects - 1
          /\ UNCHANGED loadsBuckets
    /\ modelErr' = TRUE
    /\ UNCHANGED <<activePane, overlay, buckets, objects, cursorBucket,
                   cursorObject, offsetBucket, offsetObject, bucket, history,
                   height, downloading, running>>
    /\ Rendered
    /\ UNCHANGED BrowserRest

\* The command of startDownload has returned dlDoneMsg{err} and Update
\* handles it: m.downloading = false
DlDoneMsg ==
    /\ bpc = "running"
    /\ running > 0
    /\ downloading' = FALSE
    /\ running' = running - 1
    /\ UNCHANGED <<activePane, overlay, buckets, objects, cursorBucket,
                   cursorObject, offsetBucket, offsetObject, bucket, history,
                   modelErr, height, loadsBuckets, loadsObjects>>
    /\ Rendered
    /\ UNCHANGED BrowserRest

NextBrowser ==
    \/ KeyEsc
    \/ KeyQuit
    \/ KeyHome
    \/ KeyEnd
    \/ KeyPageUp
    \/ KeyPageDown
    \/ KeyCmdPalette
    \/ KeyTab
    \/ KeyUp
    \/ KeyDown
    \/ KeyEnterBucket
    \/ KeyEnterDir
    \/ startDownload
    \/ KeyOnObjectPanics
    \/ KeyBack
    \/ KeyRefresh
    \/ BucketsMsg
    \/ ObjectsMsg
    \/ ErrorMsg
    \/ DlDoneMsg

SpecBrowser == InitBrowser /\ [][NextBrowser]_vars

\* ================================================================ claims
Returned == mpc = "returned"

Planned == mpc \in {"spawn", "wait", "collect"} \/ (Returned /\ result.kind \in {"nil", "DownloadRange", "write"})

ChunkRange(c) == c.start..c.end

ChunkLen(c) == c.end - c.start + 1

CeilDiv(a, b) == (a + b - 1) \div b

FileAt(c) == SubSeq(file, c.start + 1, c.end + 1)

\* C1: for every totalSize >= 0 and chunkSize > 0 the chunk list built by
\* download() is indexed 0,1,2,..., its inclusive byte ranges are pairwise
\* disjoint and contiguous, their union is exactly [0, totalSize), there are
\* ceil(totalSize / chunkSize) chunks, every chunk but the last has length
\* chunkSize and the last has length totalSize - (count-1)*chunkSize.
C1_PlanPartition ==
    Planned =>
        LET n == Len(chunks) IN
        /\ n = CeilDiv(totalSize, chunkSize)
        /\ \A k \in 1..n : chunks[k].index = k - 1
        /\ n > 0 => chunks[1].start = 0 /\ chunks[n].end = totalSize - 1
        /\ \A k \in 1..n : chunks[k].start <= chunks[k].end
        /\ \A k \in 1..(n - 1) : chunks[k + 1].start = chunks[k].end + 1
        /\ \A j, k \in 1..n :
              j # k => ChunkRange(chunks[j]) \cap ChunkRange(chunks[k]) = {}
        /\ UNION {ChunkRange(chunks[k]) : k \in 1..n} = 0..(totalSize - 1)
        /\ \A k \in 1..(n - 1) : ChunkLen(chunks[k]) = chunkSize
        /\ n > 0 => ChunkLen(chunks[n]) = totalSize - (n - 1) * chunkSize

\* A plan of at least three chunks whose last chunk is shorter than the others.
C1_Witness ==
    /\ mpc = "spawn"
    /\ Len(chunks) >= 3
    /\ ChunkLen(chunks[Len(chunks)]) < chunkSize
    /\ chunkCh = chunks

\* C2: in every reachable state of a download run, under every interleaving of
\* the workers, the number of chunks in state stateDownloading is at most the
\* configured concurrency.
C2_ActiveBounded == CountState(stateDownloading) <= concurrency

\* As many chunks active at once as the concurrency allows, with two workers.
C2_Witness ==
    /\ concurrency >= 2
    /\ CountState(stateDownloading) = concurrency

C4_SingleFailure ==
    (Returned /\ Planned /\ Len(errCh) = 1 /\ errCh[1].kind = "DownloadRange") =>
        /\ result.kind = "DownloadRange"
        /\ CountState(stateFailed) = 1
        /\ chunkStates[errCh[1].chunk + 1] = stateFailed
        /\ \A k \in 1..Len(chunks) :
              (k - 1 # errCh[1].chunk
                  /\ ~(\E q \in 1..Len(chunkCh) : chunkCh[q].index = k - 1))
              => chunkStates[k] = stateDone
        /\ concurrency >= 2 => chunkCh = <<>>

\* One RangeGet failed with chunks still queued and a sibling that finished them.
C4_Witness ==
    /\ Returned
    /\ Len(errCh) = 1
    /\ errCh[1].kind = "DownloadRange"
    /\ errCh[1].chunk = 0
    /\ concurrency >= 2
    /\ Len(chunks) >= 3
    /\ CountState(stateDone) = Len(chunks) - 1

ChunkError == result.kind \in {"DownloadRange", "write"}

\* C5 as stated: whenever download() returns a chunk error, every worker has
\* terminated and the queue is fully drained, no chunk being left Waiting.
C5_Original ==
    (Returned /\ ChunkError) =>
        /\ \A w \in 1..spawned : wpc[w] = "exited"
        /\ chunkCh = <<>>
        /\ CountState(stateWaiting) = 0

\* C5 (amended): whenever download() returns a chunk error, every worker has
\* terminated and no chunk is Active; the chunks left Waiting are exactly those
\* still in the queue, and the queue is non-empty only if every one of the
\* workers has failed.
C5_ErrorAfterJoin ==
    (Returned /\ ChunkError) =>
        /\ spawned = concurrency
        /\ \A w \in 1..spawned : wpc[w] = "exited"
        /\ CountState(stateDownloading) = 0
        /\ \A k \in 1..Len(chunks) :
              chunkStates[k] = stateWaiting
                  <=> \E q \in 1..Len(chunkCh) : chunkCh[q].index = k - 1
        /\ chunkCh # <<>> => Len(errCh) = concurrency

\* A chunk error returned after a sibling drained the rest of the queue.
C5_Witness ==
    /\ Returned
    /\ ChunkError
    /\ concurrency >= 2
    /\ chunkCh = <<>>
    /\ CountState(stateDone) >= 2

\* C6: the error download() returns after the join is the first one sent on
\* errCh, and download() returns nil if and only if no worker recorded an
\* error, that is if and only if no chunk is Failed.
C6_FirstErrorReturned ==
    (Returned /\ Planned) =>
        /\ errCh # <<>> => result = errCh[1]
        /\ result = Nil <=> errCh = <<>>
        /\ result = Nil <=> CountState(stateFailed) = 0

\* Two workers failed on different chunks; the first recorded error is returned.
C6_Witness ==
    /\ Returned
    /\ Len(errCh) >= 2
    /\ errCh[1] # errCh[2]
    /\ result = errCh[1]

\* The file a run with a single worker leaves when nothing fails: the chunks
\* fetched and written one after the other, in queue order.
RECURSIVE SequentialFile(_, _)
SequentialFile(f, cs) ==
    IF cs = <<>> THEN f
    ELSE SequentialFile(
             WriteAt(f, DownloadRange(object, Head(cs).start, Head(cs).end),
                     Head(cs).start),
             Tail(cs))

\* C7: for the same object and chunk size, with every RangeGet and write
\* succeeding, the final file is the same for every concurrency N >= 1 and every
\* interleaving of the workers: it is the file the one-worker run produces.
C7_ConcurrencyInvariant ==
    (Returned /\ Planned /\ concurrency >= 1 /\ errCh = <<>>) =>
        file = SequentialFile(Zeros(totalSize), chunks)

\* A successful run in which two workers each fetched and wrote chunks.
C7_Witness ==
    /\ Returned
    /\ result = Nil
    /\ concurrency >= 2
    /\ Len(chunks) >= 3
    /\ wchunk[1] # NoChunk
    /\ wchunk[2] # NoChunk
    /\ wchunk[2].index < wchunk[1].index
    /\ file = object

\* C8: throughout a download run the transferred-byte counter never decreases
\* from one state to the next and never exceeds the object's size (each RangeGet
\* returning exactly the bytes of the requested range).
C8_CounterMonotone ==
    /\ [](downloaded <= Len(object))
    /\ [][downloaded' >= downloaded]_vars

\* The counter has reached the object's size, counted over several chunks.
C8_Witness ==
    /\ Len(chunks) >= 2
    /\ totalSize >= 3
    /\ downloaded = totalSize

IsUploadPart(c) == c.op = "UploadPart"

IsComplete(c) == c.op = "Complete"

UploadPartCalls == SelectSeq(calls, IsUploadPart)

CompleteCalls == SelectSeq(calls, IsComplete)

Pending == {i \in 1..Len(calls) : calls[i].status = "pending"}

NumParts == CeilDiv(SourceSize, partSize)

\* The source bytes [(k-1)*P, min(k*P, S)) of part k.
PartBytes(k) ==
    SubSeq(source, (k - 1) * partSize + 1,
           IF k * partSize < SourceSize THEN k * partSize ELSE SourceSize)

\* C9: in a multipart upload of a source of size S with part size P > 0,
\* UploadPart is called with part numbers 1,2,...,N in strictly increasing order,
\* one part in flight at a time and each only after the one before succeeded,
\* part k carrying the source bytes [(k-1)*P, min(k*P, S)); an upload that gets
\* through its loop has sent exactly N = ceil(S/P) parts.
C9_PartsInOrder ==
    LET ups == UploadPartCalls IN
    /\ \A i \in 1..Len(ups) :
          /\ ups[i].part = i
          /\ ups[i].body = PartBytes(i)
          /\ i < Len(ups) => ups[i].status = "ok"
    /\ Cardinality(Pending) <= 1
    /\ Len(ups) <= NumParts
    /\ CompleteCalls # <<>> => Len(ups) = NumParts

\* A completed upload of at least three parts, the last one shorter.
C9_Witness ==
    /\ upc = "returned"
    /\ uresult = Nil
    /\ Len(UploadPartCalls) >= 3
    /\ SourceSize % partSize # 0
    /\ Len(UploadPartCalls[Len(UploadPartCalls)].body) < partSize

AllPartsSucceeded ==
    /\ calls # <<>>
    /\ calls[1].op = "Create"
    /\ calls[1].status = "ok"
    /\ Len(UploadPartCalls) = NumParts
    /\ \A i \in 1..Len(UploadPartCalls) : UploadPartCalls[i].status = "ok"

\* C10: when all N parts of a multipart upload succeed, the function calls
\* CompleteMultipartUpload exactly once before it returns, with exactly N
\* {PartNumber, ETag} pairs, in order PartNumber = 1..N without gap or
\* duplicate, the ETag of pair k being the one the service returned for part k;
\* no run calls it more than once.
C10_CompleteParts ==
    /\ Len(CompleteCalls) <= 1
    /\ (upc = "returned" /\ AllPartsSucceeded) =>
          /\ Len(CompleteCalls) = 1
          /\ Len(CompleteCalls[1].parts) = NumParts
          /\ \A k \in 1..NumParts :
                /\ CompleteCalls[1].parts[k].PartNumber = k
                /\ CompleteCalls[1].parts[k].ETag = UploadPartCalls[k].tag

\* Three or more parts succeeded with differing tags and were submitted.
C10_Witness ==
    /\ upc = "returned"
    /\ AllPartsSucceeded
    /\ NumParts >= 3
    /\ UploadPartCalls[1].tag # UploadPartCalls[2].tag
    /\ Len(CompleteCalls) = 1

IsAbort(c) == c.op = "Abort"

AbortCalls == SelectSeq(calls, IsAbort)

PartFailed == uresult.kind \in {"part", "read"}

\* C11: if an UploadPart call, or the local read for a part, fails during a
\* multipart upload, the run issues exactly one AbortMultipartUpload call and no
\* CompleteMultipartUpload call.
C11_AbortOnPartFailure ==
    /\ (\E i \in 1..Len(calls) : IsUploadPart(calls[i]) /\ calls[i].status = "err")
          => (CompleteCalls = <<>> /\ Len(AbortCalls) <= 1)
    /\ (upc = "returned" /\ PartFailed) =>
          (Len(AbortCalls) = 1 /\ CompleteCalls = <<>>)

\* The third part failed after two had succeeded, and the run has returned.
C11_Witness ==
    /\ upc = "returned"
    /\ uresult = Err("part", 3)
    /\ Len(UploadPartCalls) = 3
    /\ Len(AbortCalls) = 1

SessionCreated == calls # <<>> /\ calls[1].op = "Create" /\ calls[1].status = "ok"

SessionCompleted == \E i \in 1..Len(calls) : IsComplete(calls[i]) /\ calls[i].status = "ok"

\* C12: every multipart upload run that created a session ends with the session
\* either completed or aborted; in particular a failing CompleteMultipartUpload
\* is followed by an AbortMultipartUpload call before the error is returned.
C12_SessionClosed ==
    (upc = "returned" /\ SessionCreated) =>
        (SessionCompleted \/ AbortCalls # <<>>)

FailedPartAt(i) == IsUploadPart(calls[i]) /\ calls[i].status = "err"

\* C13: after the first failing part k of a multipart upload no UploadPart call
\* with a part number above k is ever issued: the failing call is the last
\* UploadPart call, the abort call is the next storage call, and the upload
\* returns right after it.
C13_NoPartAfterFailure ==
    \A i \in 1..Len(calls) :
        FailedPartAt(i) =>
            /\ \A j \in 1..Len(calls) :
                  IsUploadPart(calls[j]) => calls[j].part <= calls[i].part /\ j <= i
            /\ Len(calls) <= i + 1
            /\ Len(calls) = i => upc = "abort"
            /\ Len(calls) = i + 1 => (IsAbort(calls[i + 1]) /\ upc = "returned")

\* Part 2 of at least three failed; the abort followed and the run returned.
C13_Witness ==
    /\ upc = "returned"
    /\ NumParts >= 3
    /\ Len(UploadPartCalls) = 2
    /\ UploadPartCalls[2].status = "err"
    /\ IsAbort(calls[Len(calls)])

\* C14: when a part fails and the AbortMultipartUpload call that follows fails
\* too, the upload returns the part's error; whether the abort call succeeds or
\* fails, the returned error is that of the failed part (or failed read).
C14_AbortOutcomeDiscarded ==
    (upc = "returned" /\ AbortCalls # <<>>) =>
        /\ PartFailed
        /\ uresult = uerr
        /\ \A i \in 1..Len(calls) :
              FailedPartAt(i) => uresult = Err("part", calls[i].part)
        /\ (\A i \in 1..Len(calls) : ~FailedPartAt(i)) =>
              uresult = Err("read", Len(UploadPartCalls) + 1)

\* Part 2 failed, the abort failed as well, and the part's error was returned.
C14_Witness ==
    /\ upc = "returned"
    /\ Len(UploadPartCalls) = 2
    /\ UploadPartCalls[2].status = "err"
    /\ AbortCalls # <<>>
    /\ AbortCalls[1].status = "err"
    /\ uresult = Err("part", 2)

IsCreate(c) == c.op = "Create"

CreateCalls == SelectSeq(calls, IsCreate)

NoGetIssued == \A k \in 1..Len(gets) : gets[k] = <<>>

PastTruncate == mpc \in {"plan", "spawn", "wait", "collect"} \/ chunks # <<>> \/ spawned > 0

\* C16: the destination file exists and has exactly totalSize bytes before any
\* worker is started and before the first DownloadRange call, and it has that
\* size in every later state of the run.  Workers and DownloadRange calls only
\* exist past the Truncate step, and from there on the size never changes.
C16_FilePreSized ==
    /\ (spawned > 0 \/ ~NoGetIssued \/ \E w \in Workers : wpc[w] # "idle") => PastTruncate
    /\ PastTruncate =>
          /\ fileExists
          /\ totalSize = Len(object)
          /\ Len(file) = totalSize

\* A worker is about to make the first DownloadRange call of the run and the
\* file already is totalSize zero bytes.
C16_Witness ==
    /\ totalSize >= 2
    /\ NoGetIssued
    /\ \E w \in Workers : wpc[w] = "get"
    /\ file = Zeros(totalSize)

\* ------------------------------------------------------------------- C17
\* C17: when HeadObject fails download() has returned that error, no chunk was
\* planned, no worker was started, DownloadRange was never called, and the
\* destination is as it was before the run: absent if it was absent, its old
\* bytes if it existed.
C17_HeadFailureIsFatal ==
    result.kind = "HeadObject" =>
        /\ mpc = "returned"
        /\ chunks = <<>>
        /\ gets = <<>>
        /\ spawned = 0
        /\ \A w \in Workers : wpc[w] = "idle"
        /\ downloaded = 0
        /\ file = IF fileExists THEN OldFile ELSE <<>>

\* HeadObject failed on a run whose destination existed beforehand.
C17_Witness ==
    /\ result.kind = "HeadObject"
    /\ mpc = "returned"
    /\ fileExists
    /\ file = OldFile
    /\ Len(object) >= 2

\* ------------------------------------------------------------------- C18
\* The DownloadRange call for the chunk at position k of chunks failed: its
\* error is among those the workers sent.
GetFailed(k) == \E i \in 1..Len(errCh) : errCh[i] = Err("DownloadRange", chunks[k].index)

\* C18: when download() has returned a chunk error the destination still
\* exists with exactly totalSize bytes, the range of every Done chunk holds the
\* bytes DownloadRange returned for it, and the range of every chunk whose
\* DownloadRange failed or that is still Waiting holds only zero bytes.
C18_PartialFileKept ==
    (Returned /\ ChunkError) =>
        /\ fileExists
        /\ Len(file) = totalSize
        /\ \A k \in 1..Len(chunks) :
              /\ chunkStates[k] = stateDone =>
                    FileAt(chunks[k]) = DownloadRange(object, chunks[k].start, chunks[k].end)
              /\ (chunkStates[k] = stateWaiting \/ GetFailed(k)) =>
                    FileAt(chunks[k]) = Zeros(ChunkLen(chunks[k]))

\* A failed run that left all three kinds of chunk behind: one Done, one whose
\* DownloadRange failed and one never started.
C18_Witness ==
    /\ Returned
    /\ result.kind = "DownloadRange"
    /\ \E k \in 1..Len(chunks) : chunkStates[k] = stateDone
    /\ \E k \in 1..Len(chunks) : GetFailed(k) /\ chunkStates[k] = stateFailed
    /\ \E k \in 1..Len(chunks) : chunkStates[k] = stateWaiting

\* ------------------------------------------------------------------- C19
\* One step of one chunk's state: unchanged, Waiting to Downloading, or
\* Downloading to Done or Failed.
ChunkStep(old, new) ==
    \/ new = old
    \/ old = stateWaiting /\ new = stateDownloading
    \/ old = stateDownloading /\ new \in {stateDone, stateFailed}

\* C19: every step of a download run moves each chunk's state along
\* Waiting -> Downloading -> Done or Waiting -> Downloading -> Failed only, so
\* Done and Failed are never left and no chunk goes back to Waiting or
\* Downloading; and a chunk is never asked for twice, so a Failed chunk sees no
\* further DownloadRange call.
C19_ChunkStateMachine ==
    /\ [](\A k \in 1..Len(gets) : Len(gets[k]) <= 1)
    /\ [][\A k \in 1..Len(chunkStates) :
            /\ Len(chunkStates') = Len(chunkStates)
            /\ ChunkStep(chunkStates[k], chunkStates'[k])
            /\ chunkStates[k] \in {stateDone, stateFailed} => gets'[k] = gets[k]]_vars

\* A run that ended with a Done chunk and a Failed chunk, the Failed one having
\* been asked for once.
C19_Witness ==
    /\ Returned
    /\ \E k \in 1..Len(chunks) : chunkStates[k] = stateDone
    /\ \E k \in 1..Len(chunks) : chunkStates[k] = stateFailed /\ Len(gets[k]) = 1
    /\ \A w \in Workers : wpc[w] \in {"idle", "exited"}

\* ------------------------------------------------------------------- C20
IsSuffix(s, t) ==
    /\ Len(s) <= Len(t)
    /\ s = SubSeq(t, Len(t) - Len(s) + 1, Len(t))

\* The workers that hold a chunk they have received and not finished with.
Holding(w) == wpc[w] \in {"active", "get", "write", "failed", "send", "add", "done"}

\* C20: chunkCh holds every chunk, in order, when the first worker is started,
\* and afterwards only ever loses its head: it is always a suffix of chunks, so
\* nothing is enqueued again.  No two workers hold the same chunk, and
\* DownloadRange is called at most once per chunk, with that chunk's start and
\* inclusive end.
C20_EachChunkOnce ==
    /\ (mpc = "spawn" /\ spawned = 0) => chunkCh = chunks
    /\ IsSuffix(chunkCh, chunks)
    /\ \A v, w \in Workers :
          (v # w /\ Holding(v) /\ Holding(w)) => wchunk[v].index # wchunk[w].index
    /\ \A w \in Workers : Holding(w) =>
          \A i \in 1..Len(chunkCh) : chunkCh[i].index # wchunk[w].index
    /\ \A k \in 1..Len(gets) :
          /\ Len(gets[k]) <= 1
          /\ Len(gets[k]) = 1 =>
                gets[k][1] = [start |-> chunks[k].start, end |-> chunks[k].end]

\* Two workers shared a run of at least three chunks and every chunk was asked
\* for exactly once.
C20_Witness ==
    /\ Returned
    /\ concurrency = 2
    /\ Len(chunks) >= 3
    /\ \A k \in 1..Len(gets) : Len(gets[k]) = 1
    /\ wchunk[1] # NoChunk
    /\ wchunk[2] # NoChunk

\* ------------------------------------------------------------------- C21
\* The bytes of the file (0-based offsets) that a step changes.
Written == {k \in 0..(Len(file') - 1) : k >= Len(file) \/ file'[k + 1] # file[k + 1]}

\* C21: the chunks held by two different workers never share a byte, and once
\* the file is pre-sized every step that changes bytes of it is the WriteAt of
\* one worker and changes only bytes inside the range of the chunk that worker
\* holds; so no two workers ever write the same byte.
C21_DisjointWrites ==
    /\ [](\A v, w \in Workers :
            (v # w /\ Holding(v) /\ Holding(w)) =>
                ChunkRange(wchunk[v]) \cap ChunkRange(wchunk[w]) = {})
    /\ [][(mpc \notin {"idle", "head", "open", "truncate"}) =>
            /\ Len(file') = Len(file)
            /\ Written # {} =>
                  \E w \in Workers :
                      /\ wpc[w] = "write"
                      /\ wpc'[w] # "write"
                      /\ Written \subseteq ChunkRange(wchunk[w])
                      /\ \A v \in Workers \ {w} :
                            Holding(v) => Written \cap ChunkRange(wchunk[v]) = {}]_vars

\* Two workers are both about to write, each its own chunk, and a third chunk
\* is already in the file.
C21_Witness ==
    /\ wpc[1] = "write"
    /\ wpc[2] = "write"
    /\ wchunk[1].index # wchunk[2].index
    /\ \E k \in 1..Len(chunks) : chunkStates[k] = stateDone

\* ------------------------------------------------------------------- C25
\* C25: a download whose chunk size is <= 0 or whose concurrency is < 1 is
\* refused with an error before the chunk list is built: it never plans a
\* chunk, starts a worker or calls DownloadRange, and it does not return nil.
C25_ConfigValidated ==
    (chunkSize <= 0 \/ concurrency < 1) =>
        /\ mpc \notin {"spawn", "wait", "collect"}
        /\ chunks = <<>>
        /\ spawned = 0
        /\ NoGetIssued
        /\ Returned => result.kind # "nil"

\* ------------------------------------------------------------------- C29
\* The run got as far as starting workers and has returned.
WorkersJoined == Returned /\ result.kind \in {"nil", "DownloadRange", "write"}

\* C29: a worker that has not failed leaves its loop only when the queue is
\* empty, whatever the other workers did; so when download() returns with
\* fewer failed workers than the N it started, every chunk is Done or Failed.
C29_SiblingsContinue ==
    /\ \A w \in Workers :
          (wpc[w] = "exited" /\ werr[w] = Nil) => chunkCh = <<>>
    /\ (WorkersJoined /\ Len(errCh) < concurrency) =>
          \A k \in 1..Len(chunks) : chunkStates[k] \in {stateDone, stateFailed}

\* One of two workers failed on the first chunk and the other one went on to
\* finish every remaining chunk, at least two of them.
C29_Witness ==
    /\ WorkersJoined
    /\ concurrency = 2
    /\ Len(errCh) = 1
    /\ Len(chunks) >= 3
    /\ chunkStates[1] = stateFailed
    /\ \A k \in 2..Len(chunks) : chunkStates[k] = stateDone

\* ------------------------------------------------------------------- C30
\* C30: whenever download() has returned nil every planned chunk is Done and
\* the downloaded counter equals totalSize, whatever the concurrency setting.
C30_NilMeansComplete ==
    (Returned /\ result = Nil) =>
        /\ \A k \in 1..Len(chunks) : chunkStates[k] = stateDone
        /\ downloaded = totalSize

\* ------------------------------------------------------------------- C22
\* A step of the sampler goroutine: the clock, or a call of render.
SamplerStep == <<spc, sinceLast, lastBytes, speed, rendered, snap>>' # smVars

\* C22: a sampler step changes nothing of the download (chunk states,
\* downloaded counter, queue, file, workers, result); every step that does
\* change the download is a step download() takes without the sampler; and
\* the sampler never keeps download() from returning, which waits for it on
\* progressDone.
C22_SamplerTransparent ==
    /\ [][SamplerStep => UNCHANGED dlVars]_vars
    /\ [][Next]_dlVars
    /\ [](spc # "panicked")

\* ------------------------------------------------------------------- C23
\* C23: the percent of every frame render computes is a number from 0 to 100.
C23_PercentInRange ==
    snap.kind = "frame" =>
        /\ snap.pct.kind = "rat"
        /\ 0 <= snap.pct.n
        /\ snap.pct.n <= 100 * snap.pct.d

\* ------------------------------------------------------------------- C24
\* C24: the download of an empty object plans no chunk and calls DownloadRange
\* never, its sampler renders without failing, and download() returns nil
\* leaving an empty file, the last frame having been printed.
C24_ZeroLengthObject ==
    (Len(object) = 0 /\ Planned) =>
        /\ chunks = <<>>
        /\ gets = <<>>
        /\ spc # "panicked"
        /\ Returned =>
              /\ result = Nil
              /\ fileExists
              /\ file = <<>>
              /\ spc = "done"
              /\ snap.kind = "frame"

\* ------------------------------------------------------------------- C26
\* C26: p.speedMBs, p.lastBytes and p.lastTime change only in a call of render
\* that finds at least half a second elapsed since p.lastTime, which sets the
\* speed from the bytes gained over that time, lastBytes to the counter and
\* lastTime to now; in every other step the three are left as they are.
C26_SpeedEveryHalfSecond ==
    [][(speed' # speed \/ lastBytes' # lastBytes \/ sinceLast' < sinceLast) =>
          /\ sinceLast >= HalfSecond
          /\ rendered'
          /\ speed' = Ratio(downloaded - lastBytes, sinceLast)
          /\ lastBytes' = downloaded
          /\ sinceLast' = 0]_vars

\* Render has recomputed a speed above zero, and since then the clock has moved
\* by less than half a second while more bytes have arrived.
C26_Witness ==
    /\ Sampling
    /\ speed.n > 0
    /\ sinceLast > 0
    /\ sinceLast < HalfSecond
    /\ downloaded > lastBytes
    /\ snap.kind = "frame"
    /\ snap.speed = speed

\* ------------------------------------------------------------------- C27
\* C27 as stated: in every frame the ETA is (total - bytes) / speed when the
\* speed is above zero, and unknown exactly when it is not.
C27_Original ==
    snap.kind = "frame" =>
        /\ snap.speed.n > 0 =>
              snap.eta = Ratio((snap.total - snap.bytes) * snap.speed.d, snap.speed.n)
        /\ snap.eta = Unknown <=> ~(snap.speed.n > 0)

\* C27: in every frame the ETA is (total - bytes) / speed when the speed is
\* above zero and bytes remain to be transferred, and unknown otherwise.
C27_EtaWhileRemaining ==
    snap.kind = "frame" =>
        snap.eta = IF snap.speed.n > 0 /\ snap.bytes < snap.total
                   THEN Ratio((snap.total - snap.bytes) * snap.speed.d, snap.speed.n)
                   ELSE Unknown

\* A frame printed in the middle of a transfer with a speed above zero: its
\* ETA is a positive number.
C27_Witness ==
    /\ snap.kind = "frame"
    /\ snap.speed.n > 0
    /\ snap.bytes > 0
    /\ snap.bytes < snap.total
    /\ snap.eta.kind = "rat"
    /\ snap.eta.n > 0

\* ------------------------------------------------------------------- C28
\* What a call that ran wholly between two ClearCache calls handed back when it
\* returned a client.
WithinEpoch(r) == r.key \in Keys /\ ~r.err /\ r.from = r.to

\* C28: between two ClearCache calls at most one client is constructed for a
\* key, the map holds that client under the key, and every GetClient call for
\* the key that runs between those two ClearCache calls returns that one
\* client; so any two such calls return the same client, whatever the
\* interleaving of the callers.
C28_OneClientPerKey ==
    /\ \A a, b \in built : (a.key = b.key /\ a.epoch = b.epoch) => a = b
    /\ \A k \in Keys :
          clients[k] # NoClient =>
              [key |-> k, epoch |-> epoch, client |-> clients[k]] \in built
    /\ \A c \in Callers :
          WithinEpoch(rets[c]) =>
              [key |-> rets[c].key, epoch |-> rets[c].from,
               client |-> rets[c].client] \in built
    /\ \A c, d \in Callers :
          (/\ WithinEpoch(rets[c]) /\ WithinEpoch(rets[d])
           /\ rets[c].key = rets[d].key /\ rets[c].from = rets[d].from) =>
              rets[c].client = rets[d].client

\* Two callers each made their first call for the same key with no ClearCache
\* in between, and both were handed the one client that was constructed.
C28_Witness ==
    /\ \E c, d \in Callers :
          /\ c # d
          /\ WithinEpoch(rets[c]) /\ WithinEpoch(rets[d])
          /\ rets[c].key = rets[d].key
          /\ rets[c].from = rets[d].from
          /\ rets[c].client = rets[d].client
    /\ Cardinality(built) = 1
    /\ \A c \in Callers : cpc[c] = "idle"
    /\ cleft = MaxCalls - 2

\* ------------------------------------------------------------ C32 .. C34
\* Workers that left through the failure return of run.go:349-359.
FailedExits == {w \in Workers : wpc[w] = "exited" /\ werr[w] # Nil}

\* C32 as stated: in every state the errors recorded on errCh are at most the
\* Failed chunks, which are at most N; and when download() returns the Failed
\* chunks, the recorded errors and the workers that returned while the queue
\* still held chunks are equally many.
C32_Original ==
    /\ Len(errCh) <= CountState(stateFailed)
    /\ CountState(stateFailed) <= concurrency
    /\ WorkersJoined =>
          /\ CountState(stateFailed) = Len(errCh)
          /\ Len(errCh) = Cardinality(early)

\* C32: in every state the errors recorded on errCh are at most the Failed
\* chunks, which are at most N; when download() returns, the Failed chunks,
\* the recorded errors and the workers that left through the failure return
\* are equally many.  A worker that returned with chunks still queued is one
\* of them, but a worker that fails on the chunk it took last from the queue
\* returns with the queue empty.
C32_ErrorsMatchFailed ==
    /\ Len(errCh) <= CountState(stateFailed)
    /\ CountState(stateFailed) <= concurrency
    /\ early \subseteq FailedExits
    /\ WorkersJoined =>
          /\ CountState(stateFailed) = Len(errCh)
          /\ Len(errCh) = Cardinality(FailedExits)

\* download() returned after two workers failed: one returned with a chunk
\* still queued, the other failed on the last chunk of the queue.
C32_Witness ==
    /\ WorkersJoined
    /\ CountState(stateFailed) = 2
    /\ Len(errCh) = 2
    /\ Cardinality(early) = 1

\* Sum of the lengths of the first k chunks that are in state st.
RECURSIVE StateBytes(_, _)
StateBytes(st, k) ==
    IF k = 0 THEN 0
    ELSE StateBytes(st, k - 1)
         + (IF chunkStates[k] = st THEN ChunkLen(chunks[k]) ELSE 0)

DoneBytes == StateBytes(stateDone, Len(chunkStates))

ActiveBytes == StateBytes(stateDownloading, Len(chunkStates))

\* C33: in every state the byte counter lies between the summed lengths of
\* the Done chunks and the summed lengths of the Done and Active chunks, and
\* once every worker has exited it equals the summed lengths of the Done
\* chunks.
C33_BytesBetweenDoneAndActive ==
    /\ DoneBytes <= downloaded
    /\ downloaded <= DoneBytes + ActiveBytes
    /\ ((mpc \in {"wait", "collect"} \/ WorkersJoined) /\ AllWorkersExited) =>
          downloaded = DoneBytes

\* A worker has added the length of its chunk to the counter and has not yet
\* marked the chunk Done, while an earlier chunk is Done and another worker
\* still holds an Active chunk that is not counted.
C33_Witness ==
    \E w, v \in Workers :
        /\ w # v
        /\ wpc[w] = "done"
        /\ wpc[v] \in {"get", "write"}
        /\ DoneBytes > 0
        /\ downloaded = DoneBytes + ChunkLen(wchunk[w])
        /\ downloaded < DoneBytes + ActiveBytes

\* The sampler has returned (progressDone is closed) only after every worker
\* exited and stopProgress was closed, its last frame shows no Active chunk
\* and the value of the byte counter, and download() returns only after it.
FinalSnapshotTaken ==
    /\ spc = "done" =>
          /\ stop
          /\ mpc \in {"collect", "returned"}
          /\ AllWorkersExited
          /\ snap.kind = "frame"
          /\ snap.downloading = 0
          /\ snap.bytes = downloaded
    /\ WorkersJoined => spc = "done"

\* C34: the sampler takes its final snapshot once, after all workers have
\* exited and before download() returns, and no snapshot after it; the final
\* snapshot shows no Active chunk and the final value of the byte counter.
C34_OneFinalSnapshot ==
    /\ []FinalSnapshotTaken
    /\ [][spc = "done" => (spc' = "done" /\ snap' = snap)]_vars
    /\ [](spc # "panicked")

\* ------------------------------------------------------------------- C31
\* download() with its progress goroutine, under a scheduler that lets a
\* goroutine that can take a step take one eventually: every storage call
\* returns, and the sampler's select takes the stopProgress case once it is
\* ready.
Fairness == WF_vars(Next) /\ WF_vars(RenderStop)

SpecLive == InitSampled /\ [][NextSampled]_vars /\ Fairness

\* No worker is blocked on the send of its error: the buffer of errCh has
\* room for it.
SendNeverBlocks == \A w \in Workers : wpc[w] = "send" => Len(errCh) < concurrency

\* download() has returned, and if it had started its workers they have all
\* exited and the sampler has returned.
Terminated ==
    /\ Returned
    /\ WorkersJoined => (AllWorkersExited /\ spc = "done")

\* C31: with chunk size > 0 and concurrency >= 1, and every storage call
\* returning, no worker ever blocks on recording its error, every worker
\* exits, the sampler stops and download() returns.
C31_Terminates ==
    (concurrency >= 1) => ([]SendNeverBlocks /\ <>Terminated)

\* ------------------------------------------------------------------- C35
\* C35: in all three loops, for every source size and every part size (<= 0
\* included), the part loop terminates: every iteration that uploads a part
\* moves the offset forward, and no iteration ends in a panic.
C35_PartLoopTerminates ==
    /\ [][partNumber' # partNumber => offset' > offset]_vars
    /\ [](upc # "panicked")

\* ------------------------------------------------------------------- C37
\* C37: a client handed back by GetClientWithOptions was constructed with the
\* client options of that same call; so two calls for the same (profile,
\* region, endpoint) with different client options are not handed the same
\* client.
C37_ClientHasCallersOptions ==
    /\ \A c \in Callers :
          (rets[c].client # NoClient /\ rets[c].opts # NoOpts) =>
              [client |-> rets[c].client, opts |-> rets[c].opts] \in applied
    /\ \A c, d \in Callers :
          (/\ rets[c].client # NoClient /\ rets[d].client # NoClient
           /\ rets[c].opts # NoOpts /\ rets[d].opts # NoOpts
           /\ rets[c].key = rets[d].key
           /\ rets[c].opts # rets[d].opts) =>
              rets[c].client # rets[d].client

\* ------------------------------------------------------------------- C36
CallsWithOp(ops) == {i \in 1..Len(calls) : calls[i].op \in ops}

MultipartOps == {"Create", "UploadPart", "Complete", "Abort"}

OkPartsUpTo(n) ==
    LET ok(c) == c.op = "UploadPart" /\ c.status = "ok"
    IN  SelectSeq(SubSeq(calls, 1, n), ok)

\* The {partNumber, ETag} entries of a sequence of calls.
EntriesOf(cs) ==
    [i \in 1..Len(cs) |-> [PartNumber |-> cs[i].part, ETag |-> cs[i].tag]]

RECURSIVE BodyBytes(_)
BodyBytes(cs) ==
    IF Len(cs) = 0 THEN 0 ELSE Len(Head(cs).body) + BodyBytes(Tail(cs))

\* C38: after any sequence of calls on a MultipartUploader, completedParts
\* holds one {partNumber, ETag} entry per successful UploadPart call, in call
\* order, and uploadedBytes is the sum of the data lengths of the successful
\* calls, so a failed UploadPart changes neither; and every Complete call
\* submitted exactly the completedParts of its moment.
C38_UploaderBookkeeping ==
    /\ completedParts = EntriesOf(OkPartsUpTo(Len(calls)))
    /\ uploadedBytes = BodyBytes(OkPartsUpTo(Len(calls)))
    /\ \A i \in 1..Len(calls) :
          calls[i].op = "Complete" =>
              calls[i].parts = EntriesOf(OkPartsUpTo(i - 1))

\* Part 2 was uploaded, then an UploadPart call failed, then part 1 was
\* uploaded: two entries, in call order, and the bytes of the two parts.
C38_Witness ==
    /\ Len(calls) = 3
    /\ calls[1].op = "UploadPart" /\ calls[1].status = "ok" /\ calls[1].part = 2
    /\ calls[2].op = "UploadPart" /\ calls[2].status = "err"
    /\ Len(calls[2].body) = 2
    /\ calls[3].op = "UploadPart" /\ calls[3].status = "ok" /\ calls[3].part = 1
    /\ Len(completedParts) = 2
    /\ completedParts[1].PartNumber = 2
    /\ uploadedBytes = 4

\* ------------------------------------------------------------ C39, C40
\* C39: after any sequence of key messages and data messages the cursors are
\* valid indexes whenever they are used, so that Enter, Delete and View never
\* index out of range.
C39_CursorsValid == bpc # "panicked"

\* C40: the downloading flag is true in every state in which a download
\* started by Enter has not yet returned.
C40_DownloadingWhileInFlight == running > 0 => downloading

====
